---- MODULE Spec2Model ----
(***************************************************************************)
(* A model of pycyc (cyclic-spectroscopy deconvolution): the spectral      *)
(* transforms, the support geometry, the forward model and objective of    *)
(* src/pycyc.py, the CyclicSolver object, and the FISTA driver script      *)
(* src/cycfista.py.                                                        *)
(*                                                                         *)
(* Numbers.  A complex number is a triple <<a, b, d>> of integers with     *)
(* d >= 1 and gcd(a, b, d) = 1, standing for (a + b i) / d: the exact      *)
(* Gaussian rationals.  The transforms are modelled for lengths that       *)
(* divide 4, whose roots of unity are the powers of i, so that every FFT   *)
(* of the source is computed exactly; a shear phase that is a multiple of  *)
(* a quarter turn has an exact phasor, any other a Float one.  Arrays are  *)
(* functions on 0..n-1, as the source's arrays are indexed.                *)
(*                                                                         *)
(* The triple <<0, 0, 0>> (d = 0), Float, stands for a floating-point value *)
(* that is not followed exactly (the result of a square root or of a       *)
(* division by one, a NaN, an infinity): it may be any float, and every    *)
(* operation on it yields Float again.  Only assignments of a literal, such *)
(* as the zeros that cyclic_padding writes, turn a Float entry exact.      *)
(***************************************************************************)
EXTENDS Integers, Sequences, FiniteSets, TLC

VARIABLES args, result, stage, CS, pc, frame, fista

vars == <<args, result, stage, CS, pc, frame, fista>>

\* args, result and stage hold a call of one of the module's functions;
\* CS is the CyclicSolver object, pc the position of its running method,
\* frame the local variables of that method, fista the variables of the
\* cycfista.py script.  A specification that runs only one half leaves the
\* other half at these values.
objs == <<CS, pc, frame, fista>>
call == <<args, result, stage>>
NoObjects == CS = <<>> /\ pc = "none" /\ frame = <<>> /\ fista = <<>>
NoCall == args = <<>> /\ result = <<>> /\ stage = "none"

(***************************************************************************)
(* Bounds of the model.                                                    *)
(***************************************************************************)
MaxChan == 6
MaxBw == 2
MaxFreq == 8
MaxHarm == 3
MaxSeed == 5
MaxLag == 4
MaxAmp == 2

\* src/pycyc.py:1140, the factor of bw * 1e6 (bandwidth is given in MHz)
MHz == 1000000

\* The folding frequencies drawn are multiples of a quarter of a MHz.
FreqStep == MHz \div 4

(***************************************************************************)
(* Exact complex arithmetic.                                               *)
(***************************************************************************)
Abs(n) == IF n < 0 THEN -n ELSE n

RECURSIVE GCD(_, _)
GCD(m, n) == IF n = 0 THEN m ELSE GCD(n, m % n)

Norm(a, b, d) ==
    LET g == GCD(GCD(Abs(a), Abs(b)), d)
    IN  <<a \div g, b \div g, d \div g>>

Zero == <<0, 0, 1>>
Float == <<0, 0, 0>>
IsFloat(x) == x[3] = 0
Re(n) == <<n, 0, 1>>
\* x + y over the least common denominator
CAdd(x, y) ==
    IF IsFloat(x) \/ IsFloat(y) THEN Float
    ELSE LET sum(p, q) == Norm(x[1] * q + y[1] * p, x[2] * q + y[2] * p, x[3] * q)
         IN  sum(x[3] \div GCD(x[3], y[3]), y[3] \div GCD(x[3], y[3]))
CNeg(x) == <<-x[1], -x[2], x[3]>>
CSub(x, y) == CAdd(x, CNeg(y))
CMul(x, y) ==
    IF IsFloat(x) \/ IsFloat(y) THEN Float
    ELSE Norm(x[1] * y[1] - x[2] * y[2], x[1] * y[2] + x[2] * y[1], x[3] * y[3])
CConj(x) == <<x[1], -x[2], x[3]>>
CReal(x) == IF IsFloat(x) THEN Float ELSE Norm(x[1], 0, x[3])
CScale(n, x) == IF IsFloat(x) THEN Float ELSE Norm(n * x[1], n * x[2], x[3])
CDivInt(x, n) == IF IsFloat(x) \/ n = 0 THEN Float ELSE Norm(x[1], x[2], x[3] * n)
\* |x|^2, a real number
Abs2(x) == IF IsFloat(x) THEN Float ELSE Norm(x[1] * x[1] + x[2] * x[2], 0, x[3] * x[3])
\* x * i^q: a rotation by q quarter turns
Rot(x, q) ==
    CASE q % 4 = 0 -> x
      [] q % 4 = 1 -> <<-x[2], x[1], x[3]>>
      [] q % 4 = 2 -> <<-x[1], -x[2], x[3]>>
      [] q % 4 = 3 -> <<x[2], -x[1], x[3]>>
\* x / y for a real y: exact for an exact y # 0, a float otherwise
CDivReal(x, y) ==
    IF IsFloat(x) \/ IsFloat(y) \/ y[1] = 0 THEN Float
    ELSE IF y[1] > 0 THEN Norm(x[1] * y[3], x[2] * y[3], x[3] * y[1])
    ELSE Norm(-(x[1] * y[3]), -(x[2] * y[3]), x[3] * (-y[1]))

\* f itself, evaluated once (a function expression is otherwise evaluated
\* anew at every application)
Force(f) == IF f = f THEN f ELSE f

RECURSIVE CSum(_, _)
\* the sum of f[i] over the finite set S of indices
CSum(f, S) ==
    IF S = {} THEN Zero
    ELSE LET i == CHOOSE j \in S : TRUE
         IN  CAdd(f[i], CSum(f, S \ {i}))

\* int(): truncation toward zero of the rational num / den, den > 0
Trunc(num, den) == IF num >= 0 THEN num \div den ELSE -((-num) \div den)

(***************************************************************************)
(* Support geometry.                                                       *)
(***************************************************************************)
\* chan_limits_cs without its clamp to half the channel count
chan_limits_cs_noclamp(iharm, nchan, bw, ref_freq) ==
    LET ichan == Trunc(ref_freq * nchan * iharm - bw * MHz, 2 * bw * MHz) + 1
    IN  <<ichan, nchan - ichan>>

\* inv_aspect = (ref_freq*nchan*iharm/(bw*1e6) - 1)/2 is the rational
\* (ref_freq*nchan*iharm - bw*1e6) / (2*bw*1e6); returns (min, max)
chan_limits_cs(iharm, nchan, bw, ref_freq) ==
    LET ichan0 == Trunc(ref_freq * nchan * iharm - bw * MHz, 2 * bw * MHz) + 1
        ichan == IF 2 * ichan0 > nchan THEN nchan \div 2 ELSE ichan0
    IN  <<ichan, nchan - ichan>>

(***************************************************************************)
(* chan_limits_cs applied to every harmonic of every geometry drawn.       *)
(***************************************************************************)
InitLimits ==
    /\ \E nchan \in 1..MaxChan, bw \in 1..MaxBw, k \in 1..MaxFreq :
         \E iharm \in 0..(nchan \div 2) :
            args = [fn |-> "chan_limits_cs", iharm |-> iharm, nchan |-> nchan,
                    bw |-> bw, ref_freq |-> k * FreqStep]
    /\ result = <<>>
    /\ stage = "call"
    /\ NoObjects

CallLimits ==
    /\ stage = "call"
    /\ args.fn = "chan_limits_cs"
    /\ result' = chan_limits_cs(args.iharm, args.nchan, args.bw, args.ref_freq)
    /\ stage' = "done"
    /\ UNCHANGED <<args, objs>>

NextLimits == CallLimits

SpecLimits == InitLimits /\ [][NextLimits]_vars

\* C1: for N >= 1, positive bandwidth and folding frequency and 0 <= h <= N/2,
\* chan_limits_cs returns (c, N - c) with 0 <= c <= N/2.
C1_LimitsSymmetricClamped ==
    (stage = "done" /\ args.fn = "chan_limits_cs") =>
        /\ result[2] = args.nchan - result[1]
        /\ 0 <= result[1]
        /\ 2 * result[1] <= args.nchan

\* a call in which the clamp acted
C1_Witness ==
    /\ stage = "done"
    /\ args.fn = "chan_limits_cs"
    /\ args.iharm > 0
    /\ chan_limits_cs_noclamp(args.iharm, args.nchan, args.bw, args.ref_freq)[1] > result[1]
    /\ result[1] = args.nchan \div 2

(***************************************************************************)
(* Two-dimensional arrays: [n0, n1, v] with v[i][j] for i in 0..n0-1 and   *)
(* j in 0..n1-1 (a cyclic spectrum is indexed channel, harmonic).          *)
(***************************************************************************)
Arr2(n0, n1, f) ==
    [n0 |-> n0, n1 |-> n1,
     v |-> Force([i \in 0..(n0 - 1) |-> [j \in 0..(n1 - 1) |-> f[i, j]]])]

\* the bug of taking the channel count of a harmonic from its populated
\* channels instead of the array's shape
cyclic_padding_populated(cs, bw, ref_freq) ==
    LET pop(ih) == Cardinality({c \in 0..(cs.n0 - 1) : cs.v[c][ih] # Zero})
        lim(ih) == chan_limits_cs(ih, pop(ih), bw, ref_freq)
    IN  Arr2(cs.n0, cs.n1, [c \in 0..(cs.n0 - 1), ih \in 0..(cs.n1 - 1) |->
             IF c < lim(ih)[1] \/ c >= lim(ih)[2] THEN Zero ELSE cs.v[c][ih]])

\* cs[:imin, ih] = 0 and cs[imax:, ih] = 0 for every harmonic ih
cyclic_padding(cs, bw, ref_freq) ==
    LET nharm == cs.n1
        nchan == cs.n0
        lim(ih) == chan_limits_cs(ih, nchan, bw, ref_freq)
    IN  Arr2(nchan, nharm, [c \in 0..(nchan - 1), ih \in 0..(nharm - 1) |->
             IF c < lim(ih)[1] \/ c >= lim(ih)[2] THEN Zero ELSE cs.v[c][ih]])

\* every entry outside the valid channel range of its harmonic is zero
Padded(cs, bw, ref_freq) ==
    \A ih \in 0..(cs.n1 - 1) : \A c \in 0..(cs.n0 - 1) :
        LET lim == chan_limits_cs(ih, cs.n0, bw, ref_freq)
        IN  (c < lim[1] \/ c >= lim[2]) => cs.v[c][ih] = Zero

(***************************************************************************)
(* cyclic_padding applied once and then again to its own result.           *)
(***************************************************************************)
\* the cyclic spectra drawn: small Gaussian integers, some of them zero
GenCS(seed, c, h) == <<(seed + c + 2 * h) % 3, (seed * (c + 1) + h) % 2, 1>>

InitPad ==
    /\ \E nchan \in 1..MaxChan, nharm \in 1..MaxHarm, bw \in 1..MaxBw,
          k \in 1..MaxFreq, seed \in 0..MaxSeed :
            args = [fn |-> "cyclic_padding",
                    cs |-> Arr2(nchan, nharm, [c \in 0..(nchan - 1), h \in 0..(nharm - 1) |-> GenCS(seed, c, h)]),
                    bw |-> bw, ref_freq |-> k * FreqStep]
    /\ result = <<>>
    /\ stage = "call"
    /\ NoObjects

PadOnce ==
    /\ stage = "call"
    /\ args.fn = "cyclic_padding"
    /\ result' = [once |-> cyclic_padding(args.cs, args.bw, args.ref_freq)]
    /\ stage' = "once"
    /\ UNCHANGED <<args, objs>>

PadTwice ==
    /\ stage = "once"
    /\ args.fn = "cyclic_padding"
    /\ result' = [once |-> result.once,
                  twice |-> cyclic_padding(result.once, args.bw, args.ref_freq)]
    /\ stage' = "twice"
    /\ UNCHANGED <<args, objs>>

NextPad == PadOnce \/ PadTwice

SpecPad == InitPad /\ [][NextPad]_vars

\* C3: cyclic_padding is idempotent: padding a padded cyclic spectrum again
\* returns it element for element.
C3_PaddingIdempotent ==
    (stage = "twice" /\ args.fn = "cyclic_padding") => result.twice = result.once

\* a spectrum that the first padding changed and did not wipe out
C3_Witness ==
    /\ stage = "twice"
    /\ args.fn = "cyclic_padding"
    /\ result.once # args.cs
    /\ \E c \in 0..(args.cs.n0 - 1), h \in 1..(args.cs.n1 - 1) : result.twice.v[c][h] # Zero
(***************************************************************************)
(* Spectral transform library.  Lengths divide 4: e^(2 pi i k / n) is      *)
(* i^((4/n) k).                                                            *)
(***************************************************************************)
FFTLengths == {1, 2, 4}

Len1(x) == Cardinality(DOMAIN x)

\* scipy.fft.fft: X[k] = sum_n x[n] e^(-2 pi i k n / N)
fft(x) ==
    LET N == Len1(x)
    IN  Force([k \in 0..(N - 1) |->
            CSum([n \in 0..(N - 1) |-> Rot(x[n], 4 - (((4 \div N) * k * n) % 4))], 0..(N - 1))])

\* N * scipy.fft.ifft: x[n] = sum_k X[k] e^(+2 pi i k n / N), the 1/N of ifft
\* cancelled by the factor N every caller multiplies with
ifft_times_n(X) ==
    LET N == Len1(X)
    IN  Force([n \in 0..(N - 1) |->
            CSum([k \in 0..(N - 1) |-> Rot(X[k], (4 \div N) * k * n)], 0..(N - 1))])

\* scipy.fft.rfft of a real array of length n: the first n/2 + 1 terms of fft
rfft(x) ==
    LET X == fft(x)
    IN  Force([h \in 0..(Len1(x) \div 2) |-> X[h]])

\* m * scipy.fft.irfft(X), m = 2 (len(X) - 1): the real array
\* Re X[0] + 2 sum_(0<h<m/2) Re(X[h] e^(2 pi i h n / m)) + (-1)^n Re X[m/2]
irfft_times_m(X) ==
    LET m == 2 * (Len1(X) - 1)
    IN  Force([n \in 0..(m - 1) |->
            CAdd(CAdd(CReal(X[0]),
                      CSum([h \in 1..((m \div 2) - 1) |->
                               CScale(2, CReal(Rot(X[h], (4 \div m) * h * n)))],
                           1..((m \div 2) - 1))),
                 CReal(Rot(X[m \div 2], 2 * n)))])

\* ps2cs: rfft along the phase axis, divided by the OUTPUT length nbin/2 + 1
ps2cs(ps) ==
    LET nharm == (ps.n1 \div 2) + 1
        row == Force([c \in 0..(ps.n0 - 1) |-> rfft(ps.v[c])])
    IN  Arr2(ps.n0, nharm, [c \in 0..(ps.n0 - 1), h \in 0..(nharm - 1) |-> CDivInt(row[c][h], nharm)])

\* cs2ps: (cs.shape[1] - 1) * 2 * irfft along the harmonic axis
cs2ps(cs) ==
    LET row == Force([c \in 0..(cs.n0 - 1) |-> irfft_times_m(cs.v[c])])
    IN  Arr2(cs.n0, 2 * (cs.n1 - 1), [c \in 0..(cs.n0 - 1), b \in 0..(2 * (cs.n1 - 1) - 1) |-> row[c][b]])

\* time2freq: fft(ht) / len
time2freq(ht) == LET hf == fft(ht) IN Force([k \in DOMAIN hf |-> CDivInt(hf[k], Len1(hf))])

\* freq2time: len * ifft(hf)
freq2time(hf) == ifft_times_n(hf)

\* harm2phase: (len - 1) * 2 * irfft(ph)
harm2phase(ph) == irfft_times_m(ph)

\* phase2harm: rfft(pp) / (output length)
phase2harm(pp) == LET ph == rfft(pp) IN Force([h \in DOMAIN ph |-> CDivInt(ph[h], Len1(ph))])

\* cs2cc: nlag * ifft along the channel axis
cs2cc(cs) ==
    LET col == Force([h \in 0..(cs.n1 - 1) |->
                   ifft_times_n([c \in 0..(cs.n0 - 1) |-> cs.v[c][h]])])
    IN  Arr2(cs.n0, cs.n1, [l \in 0..(cs.n0 - 1), h \in 0..(cs.n1 - 1) |-> col[h][l]])

\* cc2cs: fft along the lag axis, divided by the length
cc2cs(cc) ==
    LET col == Force([h \in 0..(cc.n1 - 1) |->
                   fft([l \in 0..(cc.n0 - 1) |-> cc.v[l][h]])])
    IN  Arr2(cc.n0, cc.n1, [c \in 0..(cc.n0 - 1), h \in 0..(cc.n1 - 1) |-> CDivInt(col[h][c], cc.n0)])

(***************************************************************************)
(* A periodic spectrum taken to a cyclic spectrum and back.                *)
(***************************************************************************)
\* the periodic spectra drawn: real, entries in 0..MaxAmp
GenPS(seed, c, b) == Re((seed * (b + 1) + c + (seed \div 3) * b * b) % (MaxAmp + 1))

InitRoundTrip ==
    /\ \E nchan \in 1..MaxLag, nbin \in {2, 4}, seed \in 0..(4 * MaxSeed) :
            args = [fn |-> "ps2cs", seed |-> seed,
                    ps |-> Arr2(nchan, nbin, [c \in 0..(nchan - 1), b \in 0..(nbin - 1) |-> GenPS(seed, c, b)])]
    /\ result = <<>>
    /\ stage = "call"
    /\ NoObjects

Forward ==
    /\ stage = "call"
    /\ args.fn = "ps2cs"
    /\ result' = [cs |-> ps2cs(args.ps)]
    /\ stage' = "forward"
    /\ UNCHANGED <<args, objs>>

Inverse ==
    /\ stage = "forward"
    /\ args.fn = "ps2cs"
    /\ result' = [cs |-> result.cs, ps |-> cs2ps(result.cs)]
    /\ stage' = "inverse"
    /\ UNCHANGED <<args, objs>>

NextRoundTrip == Forward \/ Inverse

SpecRoundTrip == InitRoundTrip /\ [][NextRoundTrip]_vars

\* C4: for a real periodic spectrum P with an even number of phase bins,
\* cs2ps(ps2cs(P)) reconstructs P itself, with scale factor exactly 1.
C4_RoundTripIsIdentity ==
    (stage = "inverse" /\ args.fn = "ps2cs") => result.ps = args.ps

\* what the code does: the round trip scales P by nbin / (nbin/2 + 1)
C4_RoundTripScale ==
    (stage = "inverse" /\ args.fn = "ps2cs") =>
        \A c \in 0..(args.ps.n0 - 1), b \in 0..(args.ps.n1 - 1) :
            CScale((args.ps.n1 \div 2) + 1, result.ps.v[c][b]) = CScale(args.ps.n1, args.ps.v[c][b])
(***************************************************************************)
(* The real parameter layout of a filter: the reference lag rindex holds   *)
(* one real parameter, every other lag two (real part, imaginary part).    *)
(***************************************************************************)
CImag(x) == IF IsFloat(x) THEN Float ELSE Norm(x[2], 0, x[3])
\* a + b i from the reals a and b
Cplx(a, b) == CAdd(a, Rot(b, 1))
\* element j of ht.view("float"): real and imaginary parts interleaved
ViewFloat(ht, j) == IF j % 2 = 0 THEN CReal(ht[j \div 2]) ELSE CImag(ht[j \div 2])

\* the bug of storing the imaginary part of the reference-lag sample
get_params_imag(ht, rindex) ==
    LET nlag == Len1(ht)
    IN  [j \in 0..(2 * nlag - 2) |->
            IF j < 2 * rindex THEN ViewFloat(ht, j)
            ELSE IF j = 2 * rindex THEN CImag(ht[rindex])
            ELSE ViewFloat(ht, j + 1)]

\* params[:2*rindex] = ht[:rindex].view("float"); params[2*rindex] =
\* ht[rindex].real; params[2*rindex+1:] = ht[rindex+1:].view("float")
get_params(ht, rindex) ==
    LET nlag == Len1(ht)
    IN  Force([j \in 0..(2 * nlag - 2) |->
            IF j < 2 * rindex THEN ViewFloat(ht, j)
            ELSE IF j = 2 * rindex THEN CReal(ht[rindex])
            ELSE ViewFloat(ht, j + 1)])

\* ht[:rindex] = params[:2*rindex].view("complex"); ht[rindex] =
\* params[2*rindex]; ht[rindex+1:] = params[2*rindex+1:].view("complex")
get_ht(params, rindex) ==
    LET nlag == (Len1(params) + 1) \div 2
    IN  Force([l \in 0..(nlag - 1) |->
            IF l < rindex THEN Cplx(params[2 * l], params[2 * l + 1])
            ELSE IF l = rindex THEN params[2 * rindex]
            ELSE Cplx(params[2 * l - 1], params[2 * l])])

(***************************************************************************)
(* get_ht and get_params composed both ways.                               *)
(***************************************************************************)
\* the reals drawn for a parameter vector, and the complex filter samples
GenX(seed, j) == Re((((seed + 1) * (j + 2)) % (2 * MaxAmp + 1)) - MaxAmp)
GenH(seed, l) == <<((seed + 2) * (l + 1)) % (MaxAmp + 1), 1 + ((seed + l) % MaxAmp), 1>>

InitParams ==
    /\ \E nlag \in 1..MaxLag, seed \in 0..(4 * MaxSeed) :
         \E rindex \in 0..(nlag - 1) :
            args = [fn |-> "get_params", rindex |-> rindex,
                    x |-> [j \in 0..(2 * nlag - 2) |-> GenX(seed, j)],
                    h |-> [l \in 0..(nlag - 1) |-> GenH(seed, l)]]
    /\ result = <<>>
    /\ stage = "call"
    /\ NoObjects

DecodeEncode ==
    /\ stage = "call"
    /\ args.fn = "get_params"
    /\ result' = [x |-> get_params(get_ht(args.x, args.rindex), args.rindex)]
    /\ stage' = "decoded"
    /\ UNCHANGED <<args, objs>>

EncodeDecode ==
    /\ stage = "decoded"
    /\ args.fn = "get_params"
    /\ result' = [x |-> result.x,
                  h |-> get_ht(get_params(args.h, args.rindex), args.rindex)]
    /\ stage' = "encoded"
    /\ UNCHANGED <<args, objs>>

NextParams == DecodeEncode \/ EncodeDecode

SpecParams == InitParams /\ [][NextParams]_vars

\* C5: get_params(get_ht(x, r), r) = x for every real vector x of length
\* 2n - 1, and get_ht(get_params(h, r), r) is h with the imaginary part of h[r]
\* replaced by zero and every other sample unchanged.
C5_ParamsInverse ==
    (stage = "encoded" /\ args.fn = "get_params") =>
        /\ result.x = args.x
        /\ result.h = [args.h EXCEPT ![args.rindex] = CReal(args.h[args.rindex])]

\* an interior reference lag whose sample has an imaginary part to lose
C5_Witness ==
    /\ stage = "encoded"
    /\ args.fn = "get_params"
    /\ 0 < args.rindex
    /\ args.rindex < Len1(args.h) - 1
    /\ CImag(args.h[args.rindex]) # Zero
    /\ CReal(args.h[args.rindex]) # CImag(args.h[args.rindex])
    /\ result.h # args.h
(***************************************************************************)
(* Cyclic shear and forward model.  A phase is kept as a fraction          *)
(* <<num, den>> of quarter turns, standing for (num / den) * pi / 2.  Its   *)
(* phasor is a power of i when the fraction is whole, which it is for every *)
(* entry when ShearExact holds, and a float otherwise.                     *)
(***************************************************************************)
\* lags[int(nlag/2)+1:] -= nlag: lags above half the length are negative
WrapLag(l, nlag) == IF l >= (nlag \div 2) + 1 THEN l - nlag ELSE l

\* shear * (-2 pi) * tau1[lag] * alpha1[h] with tau1 = lag / (bw * 1e6) and
\* alpha1 = ref_freq * h, in quarter turns; shear2 = 2 * shear is +1 or -1
ShearPhase(shear2, l, h, nlag, bw, ref_freq) ==
    <<-(2 * shear2 * WrapLag(l, nlag) * h * ref_freq), bw * MHz>>

\* x * exp(1j * phase), and x * conj(exp(1j * phase)); a zero times a phasor
\* is zero whatever the phase
Phasor(x, phase) ==
    IF x = Zero THEN Zero
    ELSE IF phase[1] % phase[2] = 0 THEN Rot(x, (phase[1] \div phase[2]) % 4) ELSE Float
ConjPhasor(x, phase) == Phasor(x, <<-phase[1], phase[2]>>)

ShearExact(bw, ref_freq) == (2 * ref_freq) % (bw * MHz) = 0

\* cyclic_shear_cs: cs2cc, multiply by exp(1j * phases), cc2cs; returns
\* (sheared array, phases)
cyclic_shear_cs(cs, shear2, bw, ref_freq) ==
    LET nlag == cs.n0
        cc == cs2cc(cs)
        phases == Force([l \in 0..(nlag - 1) |-> [h \in 0..(cs.n1 - 1) |->
                      ShearPhase(shear2, l, h, nlag, bw, ref_freq)]])
        ccs == Arr2(nlag, cs.n1, [l \in 0..(nlag - 1), h \in 0..(cs.n1 - 1) |-> Phasor(cc.v[l][h], phases[l][h])])
    IN  <<cc2cs(ccs), phases>>

\* make_model_cs: s0 broadcast over channels times shear(+0.5) of the filter
\* times the conjugate of shear(-0.5), padded; returns (cs, csplus, csminus,
\* minus_phases)
make_model_cs(hf, s0, bw, ref_freq) ==
    LET nchan == Len1(hf)
        nharm == Len1(s0)
        prod(plus, minus) ==
            <<cyclic_padding(
                  Arr2(nchan, nharm, [c \in 0..(nchan - 1), h \in 0..(nharm - 1) |->
                      CMul(CMul(s0[h], plus[1].v[c][h]), CConj(minus[1].v[c][h]))]),
                  bw, ref_freq),
              plus[1], minus[1], minus[2]>>
        sheared(cs_tmp) ==
            prod(cyclic_shear_cs(cs_tmp, 1, bw, ref_freq), cyclic_shear_cs(cs_tmp, -1, bw, ref_freq))
    IN  sheared(Arr2(nchan, nharm, [c \in 0..(nchan - 1), h \in 0..(nharm - 1) |-> hf[c]]))

(***************************************************************************)
(* The objective: merit and gradient, as cyclic_merit_lag returns them.    *)
(***************************************************************************)
\* 2 * sum over channels and the harmonics h >= first of |model - data|^2
MeritFrom(first, cs_model, cs) ==
    CScale(2, CSum([h \in first..(cs.n1 - 1) |->
                       CSum([c \in 0..(cs.n0 - 1) |->
                                Abs2(CSub(cs_model.v[c][h], cs.v[c][h]))],
                            0..(cs.n0 - 1))],
                   first..(cs.n1 - 1)))

\* the bug of leaving the second term (grad2, lines 1287-1289) out of the
\* gradient
GradFrom_first_term(first, cs_model, csplus, csminus, phases, cs, s0, nchan) ==
    LET diff == Arr2(cs.n0, cs.n1, [c \in 0..(cs.n0 - 1), h \in 0..(cs.n1 - 1) |-> CSub(cs_model.v[c][h], cs.v[c][h])])
        cc1 == cs2cc(Arr2(cs.n0, cs.n1, [c \in 0..(cs.n0 - 1), h \in 0..(cs.n1 - 1) |-> CMul(diff.v[c][h], csminus.v[c][h])]))
        g1(l, h) == CDivInt(CScale(4, CMul(Phasor(cc1.v[l][h], phases[l][h]), CConj(s0[h]))), nchan)
    IN  Force([l \in 0..(cs.n0 - 1) |->
            CSum([h \in first..(cs.n1 - 1) |-> g1(l, h)], first..(cs.n1 - 1))])

\* the gradient in the lag domain, summed over the harmonics h >= first:
\* 4 cc1 phasors conj(s0) / nchan + 4 cc2 conj(phasors) s0 / nchan
GradFrom(first, cs_model, csplus, csminus, phases, cs, s0, nchan) ==
    LET diff == Arr2(cs.n0, cs.n1, [c \in 0..(cs.n0 - 1), h \in 0..(cs.n1 - 1) |-> CSub(cs_model.v[c][h], cs.v[c][h])])
        cc1 == cs2cc(Arr2(cs.n0, cs.n1, [c \in 0..(cs.n0 - 1), h \in 0..(cs.n1 - 1) |-> CMul(diff.v[c][h], csminus.v[c][h])]))
        cc2 == cs2cc(Arr2(cs.n0, cs.n1, [c \in 0..(cs.n0 - 1), h \in 0..(cs.n1 - 1) |-> CMul(CConj(diff.v[c][h]), csplus.v[c][h])]))
        g1(l, h) == CDivInt(CScale(4, CMul(Phasor(cc1.v[l][h], phases[l][h]), CConj(s0[h]))), nchan)
        g2(l, h) == CDivInt(CScale(4, CMul(ConjPhasor(cc2.v[l][h], phases[l][h]), s0[h])), nchan)
    IN  Force([l \in 0..(cs.n0 - 1) |->
            CAdd(CSum([h \in first..(cs.n1 - 1) |-> g1(l, h)], first..(cs.n1 - 1)),
                 CSum([h \in first..(cs.n1 - 1) |-> g2(l, h)], first..(cs.n1 - 1)))])

\* the bug of summing the merit over all harmonics, the DC term included
cyclic_merit_lag_dc(x, cs, s0, rindex, bw, ref_freq) ==
    LET out(ht, hf, m, grad) ==
            [merit |-> MeritFrom(0, m[1], cs),
             grad |-> get_params(grad, rindex),
             model |-> m[1], hf |-> hf, ht |-> ht, grad_lag |-> grad]
        graded(ht, hf, m) ==
            out(ht, hf, m, GradFrom(1, m[1], m[2], m[3], m[4], cs, s0, Len1(hf)))
        modelled(ht, hf) == graded(ht, hf, make_model_cs(hf, s0, bw, ref_freq))
        transformed(ht) == modelled(ht, time2freq(ht))
    IN  transformed(get_ht(x, rindex))

\* cyclic_merit_lag(x, CS) with CS.cs, CS.s0, CS.rindex, CS.bw, CS.ref_freq:
\* merit over cs_model[:, 1:] - CS.cs[:, 1:], gradient over grad[:, 1:]; with
\* the returned (merit, grad) the values it stores in CS.model, CS.hf, CS.ht
\* and CS.grad
cyclic_merit_lag(x, cs, s0, rindex, bw, ref_freq) ==
    LET out(ht, hf, m, grad) ==
            [merit |-> MeritFrom(1, m[1], cs),
             grad |-> get_params(grad, rindex),
             model |-> m[1], hf |-> hf, ht |-> ht, grad_lag |-> grad]
        graded(ht, hf, m) ==
            out(ht, hf, m, GradFrom(1, m[1], m[2], m[3], m[4], cs, s0, Len1(hf)))
        modelled(ht, hf) == graded(ht, hf, make_model_cs(hf, s0, bw, ref_freq))
        transformed(ht) == modelled(ht, time2freq(ht))
    IN  transformed(get_ht(x, rindex))

(***************************************************************************)
(* Two evaluations of the objective whose measured cyclic spectra differ   *)
(* in the harmonic-0 column only.  The solver context is as loop() leaves  *)
(* it: the measured spectrum padded, s0[0] = 0 and |s0[1]| = 1.            *)
(***************************************************************************)
\* the reference harmonic profiles drawn
GenS0(seed, h) ==
    IF h = 0 THEN Zero
    ELSE IF h = 1 THEN Rot(Re(1), seed)
    ELSE <<1 + (seed % MaxAmp), (seed + h) % (MaxAmp + 1), 1>>

\* cs with its harmonic-0 column replaced by that of other
WithColumn0(cs, other) ==
    Arr2(cs.n0, cs.n1, [c \in 0..(cs.n0 - 1), h \in 0..(cs.n1 - 1) |-> IF h = 0 THEN other.v[c][h] ELSE cs.v[c][h]])

InitMerit ==
    /\ \E nlag \in {2, 4}, nharm \in 2..MaxHarm, bw \in 1..MaxBw, k \in 1..MaxFreq,
          seed \in 0..MaxSeed, xseed \in 0..MaxSeed :
         \E rindex \in 0..(nlag - 1) :
            LET ref_freq == k * FreqStep
                csA == cyclic_padding(Arr2(nlag, nharm, [c \in 0..(nlag - 1), h \in 0..(nharm - 1) |-> GenCS(seed, c, h)]),
                                      bw, ref_freq)
                csB == cyclic_padding(
                           WithColumn0(csA, Arr2(nlag, nharm, [c \in 0..(nlag - 1), h \in 0..(nharm - 1) |-> GenCS(seed + 1, c, h)])),
                           bw, ref_freq)
            IN  /\ ShearExact(bw, ref_freq)
                /\ args = [fn |-> "cyclic_merit_lag", rindex |-> rindex,
                           bw |-> bw, ref_freq |-> ref_freq,
                           x |-> [j \in 0..(2 * nlag - 2) |-> GenX(xseed, j)],
                           s0 |-> [h \in 0..(nharm - 1) |-> GenS0(seed, h)],
                           cs |-> csA, cs2 |-> csB]
    /\ result = <<>>
    /\ stage = "call"
    /\ NoObjects

EvalFirst ==
    /\ stage = "call"
    /\ args.fn = "cyclic_merit_lag"
    /\ result' = [a |-> cyclic_merit_lag(args.x, args.cs, args.s0, args.rindex,
                                         args.bw, args.ref_freq)]
    /\ stage' = "first"
    /\ UNCHANGED <<args, objs>>

EvalSecond ==
    /\ stage = "first"
    /\ args.fn = "cyclic_merit_lag"
    /\ result' = [a |-> result.a,
                  b |-> cyclic_merit_lag(args.x, args.cs2, args.s0, args.rindex,
                                         args.bw, args.ref_freq)]
    /\ stage' = "second"
    /\ UNCHANGED <<args, objs>>

NextMerit == EvalFirst \/ EvalSecond

SpecMerit == InitMerit /\ [][NextMerit]_vars

\* C6: harmonic 0 is excluded from the objective: two evaluations with the same
\* parameters, reference profile and context whose measured cyclic spectra
\* differ only in the harmonic-0 column return the same merit and gradient.
C6_Harmonic0Excluded ==
    (stage = "second" /\ args.fn = "cyclic_merit_lag") =>
        /\ result.a.merit = result.b.merit
        /\ result.a.grad = result.b.grad

\* the two measured spectra differ at harmonic 0, and the objective is not
\* trivial: the merit and the gradient are nonzero
C6_Witness ==
    /\ stage = "second"
    /\ args.fn = "cyclic_merit_lag"
    /\ \E c \in 0..(args.cs.n0 - 1) : args.cs.v[c][0] # args.cs2.v[c][0]
    /\ \A h \in 1..(args.cs.n1 - 1), c \in 0..(args.cs.n0 - 1) : args.cs.v[c][h] = args.cs2.v[c][h]
    /\ result.a.merit # Zero
    /\ \E j \in DOMAIN result.a.grad : result.a.grad[j] # Zero

(***************************************************************************)
(* Python values.  An optional argument is <<>> for None and <<v>> for the *)
(* value v.  An array of one dimension is a function on 0..n-1.            *)
(***************************************************************************)
None == <<>>
Some(v) == <<v>>
Min(a, b) == IF a < b THEN a ELSE b
Max(a, b) == IF a > b THEN a ELSE b
\* the indices of a[start:stop] in an axis of length n, as Python clips them
SliceIdx(start, stop, n) ==
    LET lo == IF start < 0 THEN Max(n + start, 0) ELSE Min(start, n)
        hi == IF stop < 0 THEN Max(n + stop, 0) ELSE Min(stop, n)
    IN  lo..(hi - 1)
\* np.roll(a, shift): the element at i moves to (i + shift) mod n
roll(a, shift) ==
    LET n == Len1(a)
    IN  Force([j \in 0..(n - 1) |-> a[(j - shift) % n]])
\* |x| of a real x
AbsReal(x) == IF IsFloat(x) THEN Float ELSE <<Abs(x[1]), 0, x[3]>>

(***************************************************************************)
(* The archives on disk, as psrchive returns them.  The data array has the *)
(* shape (nsub, npol, nchan, nbin): [shape, v] with v[isub][ipol] a        *)
(* periodic spectrum, isub and ipol counted from 1 as TLA+ sequences are.  *)
(* File 1 holds one subintegration; file 2 two of the same shape with      *)
(* another folding frequency; files 3, 4 and 5 differ in the polarization, *)
(* channel and phase-bin count.  File PulseFile holds one subintegration   *)
(* with the same pulse in every channel and a folding frequency of 1 MHz,  *)
(* for which every harmonic has channels inside the band; the files        *)
(* between are like file 1 with other amplitudes.                          *)
(***************************************************************************)
NFiles == 5
MaxLoads == 2
PulseFile == 7

\* the pulse of file PulseFile: amplitudes 2, 1, 0, 1 over the phase bins
PulsePS(b) == Re(<<2, 1, 0, 1>>[(b % 4) + 1])

Archive(f) ==
    [nsub |-> IF f = 2 THEN 2 ELSE 1,
     npol |-> IF f = 3 THEN 2 ELSE 1,
     nchan |-> IF f = 4 THEN 2 ELSE 4,
     nbin |-> IF f = 5 THEN 2 ELSE 4,
     bandwidth |-> 8,
     ref_freq |-> IF f = 2 THEN 2 * MHz ELSE IF f = PulseFile THEN MHz ELSE 4 * MHz,
     pulsed |-> (f = PulseFile),
     seed |-> f]

Data4(nsub, npol, nchan, nbin, v) ==
    [shape |-> <<nsub, npol, nchan, nbin>>, v |-> v]

\* ar.get_data()
get_data(ar) ==
    Data4(ar.nsub, ar.npol, ar.nchan, ar.nbin,
          [i \in 1..ar.nsub |-> [p \in 1..ar.npol |->
              Arr2(ar.nchan, ar.nbin, [c \in 0..(ar.nchan - 1), b \in 0..(ar.nbin - 1) |->
                  IF ar.pulsed THEN PulsePS(b) ELSE GenPS(ar.seed + i + 2 * p, c, b)])]])

\* ar.pscrunch() of psrchive: the polarizations summed into one
pscrunch(d) ==
    Data4(d.shape[1], 1, d.shape[3], d.shape[4],
          [i \in 1..d.shape[1] |-> [p \in 1..1 |->
              Arr2(d.shape[3], d.shape[4], [c \in 0..(d.shape[3] - 1), b \in 0..(d.shape[4] - 1) |->
                  CSum([q \in 1..d.shape[2] |-> d.v[i][q].v[c][b]], 1..d.shape[2])])]])

\* data[:, :, start:stop, :]
SliceChan(d, start, stop) ==
    LET idx == SliceIdx(start, stop, d.shape[3])
        n == Cardinality(idx)
        first == IF n = 0 THEN 0 ELSE CHOOSE c \in idx : \A c2 \in idx : c <= c2
    IN  Data4(d.shape[1], d.shape[2], n, d.shape[4],
              [i \in 1..d.shape[1] |-> [p \in 1..d.shape[2] |->
                  Arr2(n, d.shape[4], [c \in 0..(n - 1), b \in 0..(d.shape[4] - 1) |->
                      d.v[i][p].v[first + c][b]])]])

\* data / np.abs(data[:, :, :, offp[0]:offp[1]]).mean(3)[:, :, :, None]
OffPulseNormalize(d, offp) ==
    LET idx == SliceIdx(offp[1], offp[2], d.shape[4])
        mean(i, p, c) == CDivInt(CSum([b \in idx |-> AbsReal(d.v[i][p].v[c][b])], idx),
                                 Cardinality(idx))
    IN  Data4(d.shape[1], d.shape[2], d.shape[3], d.shape[4],
              [i \in 1..d.shape[1] |-> [p \in 1..d.shape[2] |->
                  Arr2(d.shape[3], d.shape[4], [c \in 0..(d.shape[3] - 1), b \in 0..(d.shape[4] - 1) |->
                      CDivReal(d.v[i][p].v[c][b], mean(i, p, c))])]])

AddPS(a, b) ==
    Arr2(a.n0, a.n1, [c \in 0..(a.n0 - 1), j \in 0..(a.n1 - 1) |-> CAdd(a.v[c][j], b.v[c][j])])

\* for k in range(k, tscrunch): data[:-k] += data[k:]
RECURSIVE tscrunch_from(_, _, _)
tscrunch_from(d, k, tscrunch) ==
    IF k >= tscrunch THEN d
    ELSE tscrunch_from(
             Data4(d.shape[1], d.shape[2], d.shape[3], d.shape[4],
                   [i \in 1..d.shape[1] |-> [p \in 1..d.shape[2] |->
                       IF i + k <= d.shape[1] THEN AddPS(d.v[i][p], d.v[i + k][p])
                       ELSE d.v[i][p]]]),
             k + 1, tscrunch)

\* np.zeros((n0, n1)) as a list of n0 rows
ZeroRows(n0, n1) == [i \in 1..n0 |-> [j \in 0..(n1 - 1) |-> Zero]]

\* the data array of load() after the scrunching, zapping and normalizing
\* (lines 154-175), and the bandwidth factor as a fraction <<num, den>>;
\* raised names the exception of line 163
load_data(self, ar) ==
    LET d0 == IF self.pscrunch THEN pscrunch(get_data(ar)) ELSE get_data(ar)
        zap_count(d) == (self.zap_edges[1][1] * d.shape[3]) \div self.zap_edges[1][2]
        zapped(d) == IF self.zap_edges # None
                     THEN SliceChan(d, zap_count(d), -zap_count(d))
                     ELSE d
        bwfact == IF self.zap_edges # None
                  THEN <<self.zap_edges[1][2] - 2 * self.zap_edges[1][1], self.zap_edges[1][2]>>
                  ELSE <<1, 1>>
        normalized(d) == IF self.offp # None THEN OffPulseNormalize(d, self.offp[1]) ELSE d
        scrunched(d) == IF self.tscrunch # None /\ self.tscrunch # Some(0)
                        THEN tscrunch_from(d, 1, self.tscrunch[1])
                        ELSE d
    IN  IF self.zap_edges = None /\ self.maxchan # None /\ self.maxchan # Some(0)
        THEN [raised |-> "NameError", data |-> d0, bwfact |-> <<1, 1>>]
        ELSE [raised |-> "none", data |-> scrunched(normalized(zapped(d0))), bwfact |-> bwfact]

(***************************************************************************)
(* The CyclicSolver object.  has names the attributes that exist: reading  *)
(* one that does not raises AttributeError.  pp_ref_view tells that pp_ref *)
(* shares the buffer of pp_int, so that pp_int += pp changes both.  The    *)
(* epoch, centre frequency and source name that load() copies from the     *)
(* archive play no part in any computation and are left out.               *)
(***************************************************************************)
CyclicSolver(zap_edges, pscrunch_, tscrunch, offp, maxchan) ==
    [zap_edges |-> zap_edges, pscrunch |-> pscrunch_, tscrunch |-> tscrunch,
     offp |-> offp, maxchan |-> maxchan,
     filenames |-> <<>>, nspec |-> 0, has |-> {},
     npol |-> 0, nchan |-> 0, nbin |-> 0, data |-> Data4(0, 0, 0, 0, <<>>),
     ref_freq |-> 0, bw |-> 0, nlag |-> 0, nphase |-> 0, nharm |-> 0,
     nopt |-> 0, nloop |-> 0,
     dynamic_spectrum |-> <<>>, optimized_filters |-> <<>>, intrinsic_profiles |-> <<>>,
     hf_prev |-> <<>>, pp_int |-> <<>>, pp_ref |-> <<>>, pp_ref_view |-> FALSE, rindex |-> 0,
     plot_every |-> 0, make_plots |-> FALSE, isub |-> 0, ipol |-> 0, iprint |-> 0,
     ps |-> <<>>, cs |-> <<>>, ph_ref |-> <<>>, s0 |-> <<>>, noise |-> Zero,
     niter |-> 0, objval |-> <<>>,
     hf |-> <<>>, ht |-> <<>>, grad |-> <<>>, model |-> <<>>, hf_soln |-> <<>>]

\* np.append(a, b, axis=0)
AppendData(a, b) ==
    Data4(a.shape[1] + b.shape[1], a.shape[2], a.shape[3], a.shape[4], a.v \o b.v)

\* lines 228-230: the result arrays created anew
WithResultArrays(self) ==
    [self EXCEPT !.dynamic_spectrum = ZeroRows(self.nspec, self.nchan),
                 !.optimized_filters = ZeroRows(self.nspec, self.nchan),
                 !.intrinsic_profiles = ZeroRows(self.nspec, self.nbin)]

\* load(filename); asserts is FALSE when the interpreter strips the assert
\* statements, and the first statement to fail is then np.append
load_with(self, filename, asserts) ==
    LET ar == Archive(filename)
        s1 == [self EXCEPT !.filenames = Append(@, filename)]
        same(shape) == /\ shape[2] = self.npol
                       /\ shape[3] = self.nchan
                       /\ shape[4] = self.nbin
        first(data, bwfact) ==
            WithResultArrays(
                [s1 EXCEPT !.nspec = data.shape[1], !.npol = data.shape[2],
                           !.nchan = data.shape[3], !.nbin = data.shape[4],
                           !.data = data,
                           !.ref_freq = ar.ref_freq,
                           !.bw = (Abs(ar.bandwidth) * bwfact[1]) \div bwfact[2],
                           !.nlag = data.shape[3], !.nphase = data.shape[4],
                           !.nharm = (data.shape[4] \div 2) + 1,
                           !.nopt = 0, !.nloop = 0,
                           !.has = @ \cup {"data"}])
        loaded(ld) ==
            IF ld.raised # "none" THEN [self |-> s1, raised |-> ld.raised]
            ELSE IF self.nspec = 0
            THEN [self |-> first(ld.data, ld.bwfact), raised |-> "none"]
            ELSE IF asserts /\ ~same(ld.data.shape)
            THEN [self |-> s1, raised |-> "AssertionError"]
            ELSE IF ~same(ld.data.shape)
            THEN [self |-> [s1 EXCEPT !.nspec = @ + ld.data.shape[1]], raised |-> "ValueError"]
            ELSE [self |-> WithResultArrays(
                              [s1 EXCEPT !.nspec = @ + ld.data.shape[1],
                                         !.data = AppendData(@, ld.data)]),
                  raised |-> "none"]
    IN  loaded(load_data(self, ar))

load_stripped(self, filename) == load_with(self, filename, FALSE)

load(self, filename) == load_with(self, filename, TRUE)

(***************************************************************************)
(* The solver constructed and segments loaded into it.                     *)
(***************************************************************************)
Default == CyclicSolver(None, FALSE, None, None, None)

Configs ==
    {Default,
     [Default EXCEPT !.pscrunch = TRUE],
     [Default EXCEPT !.tscrunch = Some(2)],
     [Default EXCEPT !.zap_edges = Some(<<1, 4>>)],
     [Default EXCEPT !.zap_edges = Some(<<1, 8>>)],
     [Default EXCEPT !.maxchan = Some(2)],
     [Default EXCEPT !.offp = Some(<<0, 1>>)],
     [Default EXCEPT !.offp = Some(<<0, 1>>), !.tscrunch = Some(2)]}

InitLoad ==
    /\ CS \in Configs
    /\ pc = "idle"
    /\ frame = [method |-> "__init__", raised |-> "none"]
    /\ fista = <<>>
    /\ NoCall

\* load(filename) called on a file of files
LoadFrom(files) ==
    /\ pc = "idle"
    /\ Len(CS.filenames) < MaxLoads
    /\ \E filename \in files : \E r \in {load(CS, filename)} :
         /\ CS' = r.self
         /\ frame' = [method |-> "load", filename |-> filename, raised |-> r.raised]
    /\ UNCHANGED <<pc, fista, call>>

LoadFile == LoadFrom(1..NFiles)

NextLoad == LoadFile

SpecLoad == InitLoad /\ [][NextLoad]_vars

\* the shape of the segment in file filename, as load() of self compares it
SegmentShape(self, filename) == load_data(self, Archive(filename)).data.shape

\* C9: a load() of a segment whose polarization, channel or phase-bin count
\* differs from that of the first loaded segment raises, and leaves nspec, the
\* accumulated data array and the count of optimizations unchanged.
C9_MismatchedLoadRaises ==
    [][(/\ frame'.method = "load"
        /\ CS' # CS
        /\ CS.nspec > 0
        /\ load_data(CS, Archive(frame'.filename)).raised = "none"
        /\ \E k \in 2..4 : SegmentShape(CS, frame'.filename)[k] # CS.data.shape[k])
       => (/\ frame'.raised = "AssertionError"
           /\ CS'.nspec = CS.nspec
           /\ CS'.data = CS.data
           /\ CS'.nopt = CS.nopt)]_vars

\* a second segment with another channel count has been refused
C9_Witness ==
    /\ frame.method = "load"
    /\ frame.raised = "AssertionError"
    /\ Len(CS.filenames) = 2
    /\ CS.nspec > 0
    /\ SegmentShape(CS, frame.filename)[3] # CS.nchan
    /\ SegmentShape(CS, frame.filename)[2] = CS.npol

(***************************************************************************)
(* Normalisation, profile estimate and filter matching.  A square root is  *)
(* followed exactly when it is rational and small, and is a float          *)
(* otherwise.                                                              *)
(***************************************************************************)
IsSquare(n) == n >= 0 /\ n <= 1024 /\ \E r \in 0..32 : r * r = n
ISqrt(n) == CHOOSE r \in 0..32 : r * r = n

\* np.sqrt of a real number
Sqrt(x) ==
    IF IsFloat(x) THEN Float
    ELSE IF IsSquare(x[1]) /\ IsSquare(x[3]) THEN <<ISqrt(x[1]), 0, ISqrt(x[3])>>
    ELSE Float

\* np.abs of a complex number
CAbs(x) == Sqrt(Abs2(x))

\* rms_cs: sqrt of the mean of |cs[imin:imax, ih]|^2 (nan for an empty range)
rms_cs(cs, ih, bw, ref_freq) ==
    LET range(lim) == SliceIdx(lim[1], lim[2], cs.n0)
        rms(idx) == Sqrt(CDivInt(CSum([c \in idx |-> Abs2(cs.v[c][ih])], idx), Cardinality(idx)))
    IN  rms(range(chan_limits_cs(ih, cs.n0, bw, ref_freq)))

\* normalize_cs: cs / sqrt(|rms1^2 - rmsn^2|)
normalize_cs(cs, bw, ref_freq) ==
    LET normfac(rms1, rmsn) == Sqrt(AbsReal(CSub(CMul(rms1, rms1), CMul(rmsn, rmsn))))
        divided(f) ==
            Arr2(cs.n0, cs.n1, [c \in 0..(cs.n0 - 1), h \in 0..(cs.n1 - 1) |-> CDivReal(cs.v[c][h], f)])
    IN  divided(normfac(rms_cs(cs, 1, bw, ref_freq), rms_cs(cs, cs.n1 - 1, bw, ref_freq)))

\* normalize_profile: ph / |ph[1]|
normalize_profile(ph) ==
    LET m == CAbs(ph[1])
    IN  Force([h \in DOMAIN ph |-> CDivReal(ph[h], m)])

\* fscrunch_cs: the padded array summed over the channels
fscrunch_cs(cs, bw, ref_freq) ==
    LET cstmp == cyclic_padding(cs, bw, ref_freq)
    IN  Force([h \in 0..(cs.n1 - 1) |->
            CSum([c \in 0..(cs.n0 - 1) |-> cstmp.v[c][h]], 0..(cs.n0 - 1))])

\* optimize_profile: sum_c cs H(-) conj(H(+)) / sum_c |H(-)|^2 |H(+)|^2, and 0
\* where the denominator is not positive
optimize_profile(cs, hf, bw, ref_freq) ==
    LET nchan == cs.n0
        nharm == cs.n1
        ratio(numer, denom) ==
            Force([h \in 0..(nharm - 1) |->
                IF IsFloat(denom[h]) THEN Float
                ELSE IF denom[h][1] <= 0 THEN Zero
                ELSE CDivReal(numer[h], denom[h])])
        cshmhp(csplus, csminus) ==
            Arr2(nchan, nharm, [c \in 0..(nchan - 1), h \in 0..(nharm - 1) |->
                CMul(CMul(cs.v[c][h], csminus.v[c][h]), CConj(csplus.v[c][h]))])
        maghmhp(csplus, csminus) ==
            Arr2(nchan, nharm, [c \in 0..(nchan - 1), h \in 0..(nharm - 1) |->
                CMul(Abs2(csminus.v[c][h]), Abs2(csplus.v[c][h]))])
        scrunched(csplus, csminus) ==
            ratio(fscrunch_cs(cshmhp(csplus, csminus), bw, ref_freq),
                  fscrunch_cs(maghmhp(csplus, csminus), bw, ref_freq))
        sheared(cs1) ==
            scrunched(cyclic_shear_cs(cs1, 1, bw, ref_freq)[1],
                      cyclic_shear_cs(cs1, -1, bw, ref_freq)[1])
    IN  sheared(Arr2(nchan, nharm, [c \in 0..(nchan - 1), h \in 0..(nharm - 1) |-> hf[c]]))

\* match_two_filters: hf2 * z, z = (z1 / |z1|) * sqrt(n / Re z2) with
\* z1 = sum hf1 conj(hf2) and z2 = sum |hf2|^2
match_two_filters(hf1, hf2) ==
    LET n == Len1(hf1)
        unit(z1) == CDivReal(z1, CAbs(z1))
        scale(z2) == Sqrt(CDivReal(Re(n), CReal(z2)))
        times(z) == Force([c \in 0..(n - 1) |-> CMul(hf2[c], z)])
    IN  times(CMul(unit(CSum([c \in 0..(n - 1) |-> CMul(hf1[c], CConj(hf2[c]))], 0..(n - 1))),
                   scale(CSum([c \in 0..(n - 1) |-> Abs2(hf2[c])], 0..(n - 1)))))

\* cyclic_variance: (var, nvalid * 2)
cyclic_variance(self, cs) ==
    LET top == self.nharm - 1
        width(lim) == lim[2] - lim[1]
        RECURSIVE count(_)
        count(ih) == IF ih >= self.nharm - 1 THEN 0
                     ELSE width(chan_limits_cs(ih, self.nchan, self.bw, self.ref_freq)) + count(ih + 1)
        var(idx, nvalid) == CDivInt(CSum([c \in idx |-> Abs2(cs.v[c][top])], idx), nvalid)
        last(lim) == <<var(SliceIdx(lim[1], lim[2], self.nchan), width(lim)),
                       (width(lim) + count(1)) * 2>>
    IN  last(chan_limits_cs(top, self.nchan, self.bw, self.ref_freq))

\* the delays phase_gradient can return for nchan channels: the phase angle
\* is a float, and each branch of lines 506-513 yields an integer in a range
phase_gradient_delays(nchan) ==
    {nchan \div 2, (nchan \div 2) + 1}
        \cup {nchan - 1 - j : j \in 0..(nchan \div 2)}
        \cup 0..(nchan \div 2)

HasFloat(a) == \E i \in DOMAIN a : IsFloat(a[i])

\* np.abs(ht).argmax() of an exact array: the first index of the maximum
argmax_abs(ht) ==
    CHOOSE i \in DOMAIN ht :
        /\ \A j \in DOMAIN ht :
             Abs2(ht[j])[1] * Abs2(ht[i])[3] <= Abs2(ht[i])[1] * Abs2(ht[j])[3]
        /\ \A j \in DOMAIN ht :
             j < i => Abs2(ht[j])[1] * Abs2(ht[i])[3] < Abs2(ht[i])[1] * Abs2(ht[j])[3]

\* ht * phasor / np.abs(phasor) with phasor = conj(ht[rindex])
rotate_phase(ht, rindex) ==
    LET phasor == CConj(ht[rindex])
        unit == CDivReal(phasor, CAbs(phasor))
    IN  Force([l \in DOMAIN ht |-> CMul(ht[l], unit)])

(***************************************************************************)
(* Box constraints of loop(): a list of (lower, upper) pairs, one for each *)
(* real parameter, each pair (0, 0) or (None, None).                       *)
(***************************************************************************)
Fixed == <<Some(0), Some(0)>>
Free == <<None, None>>

\* the bug of testing maxneg for truth, which turns maxneg = 0 off
loop_bounds_truthy(ht, rindex, maxneg, maxlen) ==
    IF maxneg # None /\ maxneg # Some(0)
    THEN Some([j \in 0..(2 * Len1(ht) - 2) |-> Free])
    ELSE None

\* the bug of rolling the window to the reference lag itself
loop_bounds_unshifted(ht, rindex, maxneg, maxlen) ==
    IF maxneg # None
    THEN LET nlag == Len1(ht)
             valsamp == IF maxlen # None THEN maxlen[1] ELSE (nlag \div 2) + maxneg[1]
             minbound == roll([l \in 0..(nlag - 1) |->
                                  IF l \in SliceIdx(0, valsamp, nlag) THEN <<1, 1, 1>> ELSE Zero],
                              rindex)
             b == get_params(minbound, rindex)
         IN  Some([j \in DOMAIN b |-> IF b[j][1] = 0 THEN Fixed ELSE Free])
    ELSE None

\* lines 412-424: minbound[:valsamp] = 1 + 1j, rolled by rindex - maxneg, laid
\* out by get_params, and each 0 mapped to (0, 0), each 1 to (None, None)
loop_bounds(ht, rindex, maxneg, maxlen) ==
    IF maxneg # None
    THEN LET nlag == Len1(ht)
             valsamp == IF maxlen # None THEN maxlen[1] ELSE (nlag \div 2) + maxneg[1]
             bchoice == <<Some(0), None>>
             chosen(b) ==
                 Some([j \in DOMAIN b |->
                     <<bchoice[Trunc(b[j][1], b[j][3]) + 1], bchoice[Trunc(b[j][1], b[j][3]) + 1]>>])
         IN  chosen(get_params(roll([l \in 0..(nlag - 1) |->
                                        IF l \in SliceIdx(0, valsamp, nlag) THEN <<1, 1, 1>> ELSE Zero],
                                    rindex - maxneg[1]),
                               rindex))
    ELSE None

(***************************************************************************)
(* The box constraints computed for every filter length, reference lag,    *)
(* maxneg and maxlen drawn.                                                *)
(***************************************************************************)
MaxNeg == 2
MaxLen == 5

InitBounds ==
    /\ \E nlag \in 1..MaxLag, maxneg \in {None} \cup {Some(g) : g \in 0..MaxNeg},
          maxlen \in {None} \cup {Some(m) : m \in 0..MaxLen} :
         \E rindex \in 0..(nlag - 1) :
            args = [fn |-> "loop_bounds", nlag |-> nlag, rindex |-> rindex,
                    maxneg |-> maxneg, maxlen |-> maxlen]
    /\ result = <<>>
    /\ stage = "call"
    /\ NoObjects

CallBounds ==
    /\ stage = "call"
    /\ args.fn = "loop_bounds"
    /\ result' = loop_bounds([l \in 0..(args.nlag - 1) |-> Zero], args.rindex,
                             args.maxneg, args.maxlen)
    /\ stage' = "done"
    /\ UNCHANGED <<args, objs>>

NextBounds == CallBounds

SpecBounds == InitBounds /\ [][NextBounds]_vars

\* the indices of the real parameters of the lag sample l
ParamsOfLag(l, rindex) ==
    IF l < rindex THEN {2 * l, 2 * l + 1}
    ELSE IF l = rindex THEN {2 * rindex}
    ELSE {2 * l - 1, 2 * l}

\* the support window of g samples before the reference lag and m in all
Window(nlag, rindex, g, m) == {(rindex - g + k) % nlag : k \in 0..(Min(m, nlag) - 1)}

\* C7: with maxneg = g and maxlen = m the bounds fix to (0, 0) every parameter
\* of every lag sample outside W = {(rindex - g + k) mod nlag : 0 <= k <
\* min(m, nlag)} and leave every parameter of a lag sample inside W at
\* (None, None); W has at most m samples.
C7_BoundsFixOutsideWindow ==
    (stage = "done" /\ args.fn = "loop_bounds" /\ args.maxneg # None /\ args.maxlen # None) =>
        LET W == Window(args.nlag, args.rindex, args.maxneg[1], args.maxlen[1])
        IN  /\ result # None
            /\ DOMAIN result[1] = 0..(2 * args.nlag - 2)
            /\ \A l \in 0..(args.nlag - 1) : \A j \in ParamsOfLag(l, args.rindex) :
                 result[1][j] = IF l \in W THEN Free ELSE Fixed
            /\ Cardinality(W) <= args.maxlen[1]

\* a window that wraps around the end of the filter, holds the reference lag
\* and leaves other lags fixed
C7_Witness ==
    /\ stage = "done"
    /\ args.fn = "loop_bounds"
    /\ args.maxneg # None
    /\ args.maxlen # None
    /\ args.rindex - args.maxneg[1] < 0
    /\ args.maxneg[1] > 0
    /\ result[1][2 * args.rindex] = Free
    /\ \E j \in DOMAIN result[1] : result[1][j] = Fixed
    /\ \E j \in DOMAIN result[1] : j # 2 * args.rindex /\ result[1][j] = Free

(***************************************************************************)
(* initProfile and loop.  A method returns the object as it leaves it and  *)
(* the exception it raised, "none" when it returned.  Results of the       *)
(* floating-point kernels that are not followed exactly come in as         *)
(* arguments: pg is the delay phase_gradient returns (None when the phase  *)
(* angle is a NaN), am the index argmax returns on an array with floats,   *)
(* mkdir_ok the outcome of os.mkdir.                                       *)
(***************************************************************************)
ZeroArray(n) == [i \in 0..(n - 1) |-> Zero]
FloatArray(n) == [i \in 0..(n - 1) |-> Float]
AddArray(a, b) == Force([i \in DOMAIN a |-> CAdd(a[i], b[i])])

\* the bug of storing the normalized cyclic spectrum without padding it
measured_cs_unpadded(ps, bw, ref_freq) ==
    normalize_cs(ps2cs(ps), bw, ref_freq)

\* cyclic_padding(normalize_cs(ps2cs(ps))): the measured cyclic spectrum
measured_cs(ps, bw, ref_freq) ==
    cyclic_padding(normalize_cs(ps2cs(ps), bw, ref_freq), bw, ref_freq)

\* one pass of the loop of lines 262-278 over the subintegrations from isub on
RECURSIVE initProfile_from(_, _, _, _)
initProfile_from(self, isub, ipol, maxinitharm) ==
    IF isub > self.data.shape[1] THEN self
    ELSE LET hf == [c \in 0..(self.nchan - 1) |-> Re(1)]
             \* ph[0] = 0.0 and ph[maxinitharm:] = 0.0
             zeroed(ph) ==
                 [h \in DOMAIN ph |->
                     IF h = 0 THEN Zero
                     ELSE IF maxinitharm # None /\ maxinitharm # Some(0)
                             /\ h \in SliceIdx(maxinitharm[1], Len1(ph), Len1(ph))
                     THEN Zero
                     ELSE ph[h]]
             pp == harm2phase(zeroed(optimize_profile(
                       measured_cs(self.data.v[isub][ipol + 1], self.bw, self.ref_freq),
                       hf, self.bw, self.ref_freq)))
         IN  initProfile_from([self EXCEPT !.rindex = argmax_abs(freq2time(hf)),
                                           !.has = @ \cup {"rindex"},
                                           !.pp_int = AddArray(@, pp)],
                              isub + 1, ipol, maxinitharm)

\* initProfile(loadFile=None, ipol, maxinitharm)
initProfile(self, ipol, maxinitharm) ==
    IF "data" \notin self.has THEN [self |-> self, raised |-> "AttributeError"]
    ELSE LET s1 == [self EXCEPT !.hf_prev = [c \in 0..(self.nchan - 1) |-> Re(1)],
                                !.pp_int = ZeroArray(self.nphase),
                                !.pp_ref_view = FALSE,
                                !.has = @ \cup {"hf_prev"}]
             \* line 280, after the loop
             summed(s2) == [self |-> [s2 EXCEPT !.pp_ref = s2.pp_int,
                                                !.pp_ref_view = TRUE,
                                                !.has = @ \cup {"pp_ref"}],
                            raised |-> "none"]
         IN  IF self.data.shape[1] > 0 /\ ipol >= self.npol
             THEN [self |-> s1, raised |-> "IndexError"]
             ELSE IF self.data.shape[1] > 0 /\ self.nchan = 0
             THEN [self |-> s1, raised |-> "ValueError"]
             ELSE summed(initProfile_from(s1, 1, ipol, maxinitharm))

\* self.dynamic_spectrum[isub, :] = row, and the like
SetRow(rows, isub, row) == [rows EXCEPT ![isub + 1] = row]

\* lines 340-353 of loop(): the plotting options
loop_plots(self, o, mkdir_ok) ==
    LET s1 == [self EXCEPT !.plot_every = o.plot_every, !.make_plots = o.make_plots]
    IN  IF o.make_plots /\ o.plotdir = None
        THEN [self |-> s1, raised |-> "AttributeError"]
        ELSE [self |-> [s1 EXCEPT !.make_plots = o.make_plots /\ mkdir_ok],
              raised |-> "none"]

\* thresh = 1e-5 of minphase (line 970)
Thresh == <<1, 0, 100000>>

\* a < b on real numbers that are not floats
RLess(a, b) == a[1] * b[3] < b[1] * a[3]

\* line 393: np.abs(data[isub, ipol, :, onp[0]:onp[1]]).mean(1), the mean of
\* an empty slice being the float NaN
offpulse_spectrum(ps, onp) ==
    LET idx == SliceIdx(onp[1], onp[2], ps.n1)
    IN  Force([c \in 0..(ps.n0 - 1) |->
            CDivInt(CSum([b \in idx |-> AbsReal(ps.v[c][b])], idx), Cardinality(idx))])

\* line 394: spect - spect.min()
minus_min(spect) ==
    IF HasFloat(spect) \/ DOMAIN spect = {} THEN FloatArray(Len1(spect))
    ELSE LET lo == CHOOSE c \in DOMAIN spect : \A c2 \in DOMAIN spect : ~RLess(spect[c2], spect[c])
         IN  Force([c \in DOMAIN spect |-> CSub(spect[c], spect[lo])])

\* lines 968-972, minphase(v): exp(fft(fold(ifft(log(clipped))))) is computed
\* in floats.  Where the clipped array holds one number k in every channel,
\* ifft leaves log k at lag 0 and zero elsewhere, fold keeps that, fft
\* spreads log k over the channels again and exp returns k in every channel.
minphase(v) ==
    LET clipped == Force([c \in DOMAIN v |->
                       IF IsFloat(v[c]) THEN Float
                       ELSE IF RLess(AbsReal(v[c]), Thresh) THEN Thresh ELSE v[c]])
    IN  IF \A c \in DOMAIN v : clipped[c] = clipped[0] THEN clipped
        ELSE FloatArray(Len1(v))

\* lines 393-395: the minimum-phase guess with its peak moved to the delay
minphase_guess(self, o, delay, delta) ==
    roll(freq2time(minphase(minus_min(
             offpulse_spectrum(self.data.v[o.isub + 1][o.ipol + 1], o.onp[1])))), delay)

\* the bug of starting from the last solution whenever use_last_soln is set,
\* even in the first optimization
loop_guess_carryover(self, o, cs, hf_prev_, pg) ==
    IF ~o.use_last_soln
    THEN IF o.ht0 = None
         THEN LET delay == IF o.rindex = None THEN pg ELSE o.rindex
                  delta == [l \in 0..(self.nlag - 1) |->
                               IF l = delay[1] THEN Re(self.nlag) ELSE Zero]
                  ht == IF o.use_minphase /\ o.onp # None
                        THEN minphase_guess(self, o, delay[1], delta) ELSE delta
              IN  IF delay = None THEN [raised |-> "ValueError", hf |-> <<>>]
                  ELSE IF delay[1] >= self.nlag THEN [raised |-> "IndexError", hf |-> <<>>]
                  ELSE [raised |-> "none", hf |-> time2freq(ht)]
         ELSE [raised |-> "none", hf |-> time2freq(o.ht0[1])]
    ELSE IF self.nlag = 0 THEN [raised |-> "ValueError", hf |-> <<>>]
    ELSE [raised |-> "none", hf |-> hf_prev_]

\* lines 379-402: the initial filter; raised names the exception of line 388
loop_guess(self, o, cs, hf_prev_, pg) ==
    IF self.nopt = 0 \/ ~o.use_last_soln
    THEN IF o.ht0 = None
         THEN LET delay == IF o.rindex = None THEN pg ELSE o.rindex
                  delta == [l \in 0..(self.nlag - 1) |->
                               IF l = delay[1] THEN Re(self.nlag) ELSE Zero]
                  ht == IF o.use_minphase /\ o.onp # None
                        THEN minphase_guess(self, o, delay[1], delta) ELSE delta
              IN  IF delay = None THEN [raised |-> "ValueError", hf |-> <<>>]
                  ELSE IF delay[1] >= self.nlag THEN [raised |-> "IndexError", hf |-> <<>>]
                  ELSE [raised |-> "none", hf |-> time2freq(ht)]
         ELSE [raised |-> "none", hf |-> time2freq(o.ht0[1])]
    ELSE IF self.nlag = 0 THEN [raised |-> "ValueError", hf |-> <<>>]
    ELSE [raised |-> "none", hf |-> hf_prev_]

\* loop() up to the call of the minimizer (lines 340-446), its steps defined
\* from the last to the first
loop_begin(self, o, pg, am, mkdir_ok) ==
    LET fail(s, exc) == [self |-> s, raised |-> exc, locals |-> <<>>]
        fresh == self.nopt = 0 \/ ~o.use_last_soln
        adjust == self.nopt = 0 \/ o.adjust_delay
        hf_prev_ == IF o.hf_prev = None THEN self.hf_prev ELSE o.hf_prev[1]
        \* lines 429-446: noise, dof, x0, niter and objval
        counted(s, ht0, rindex, cv, dof) ==
            IF dof = 0 THEN fail([s EXCEPT !.noise = Sqrt(cv[1])], "ZeroDivisionError")
            ELSE [self |-> [s EXCEPT !.noise = Sqrt(cv[1]), !.niter = 0, !.objval = <<>>],
                  raised |-> "none",
                  locals |-> [hf_prev_ |-> hf_prev_, rindex |-> rindex,
                              bounds |-> loop_bounds(ht0, rindex, o.maxneg, o.maxlen),
                              x0 |-> get_params(rotate_phase(ht0, rindex), rindex),
                              dof |-> dof]]
        varied(s, ht0, rindex, cv) ==
            counted(s, ht0, rindex, cv, cv[2] - (2 * self.nlag - 1) - self.nphase)
        \* lines 404-409: the reference lag
        delayed(s, cs, ht0, rindex) ==
            varied(IF adjust THEN [s EXCEPT !.rindex = rindex, !.has = @ \cup {"rindex"}] ELSE s,
                   ht0, rindex, cyclic_variance(self, cs))
        guessed(s, cs, ht0) ==
            delayed(s, cs, ht0,
                    IF adjust
                    THEN IF o.rindex = None
                         THEN IF HasFloat(ht0) THEN am ELSE argmax_abs(ht0)
                         ELSE o.rindex[1]
                    ELSE self.rindex)
        \* lines 373-402: the reference profile and the initial filter
        started(s, cs, g) ==
            IF g.raised # "none" THEN fail(s, g.raised) ELSE guessed(s, cs, freq2time(g.hf))
        referenced(s, cs, ph_ref) ==
            started([s EXCEPT !.ph_ref = ph_ref, !.s0 = ph_ref,
                              !.pp_int = IF fresh THEN ZeroArray(self.nphase) ELSE @,
                              !.pp_ref_view = IF fresh THEN FALSE ELSE @],
                    cs, loop_guess(self, o, cs, hf_prev_, pg))
        stored(s, cs) ==
            IF "pp_ref" \notin self.has THEN fail(s, "AttributeError")
            ELSE referenced(s, cs, [normalize_profile(phase2harm(self.pp_ref)) EXCEPT ![0] = Zero])
        \* lines 358-371: the measured cyclic spectrum
        measured(s, ps, cs) ==
            stored([s EXCEPT !.ps = ps, !.cs = cs, !.has = @ \cup {"cs"},
                             !.dynamic_spectrum =
                                 SetRow(@, o.isub, [c \in 0..(self.nchan - 1) |-> CReal(cs.v[c][0])])],
                   cs)
        sliced(s, ps) == measured(s, ps, measured_cs(ps, self.bw, self.ref_freq))
        \* lines 355-366
        entered(s) ==
            IF "data" \notin self.has THEN fail(s, "AttributeError")
            ELSE IF o.isub >= self.data.shape[1] \/ o.ipol >= self.npol THEN fail(s, "IndexError")
            ELSE IF o.hf_prev = None /\ "hf_prev" \notin self.has THEN fail(s, "AttributeError")
            ELSE sliced(s, self.data.v[o.isub + 1][o.ipol + 1])
        plotted(pl) ==
            IF pl.raised # "none" THEN fail(pl.self, pl.raised)
            ELSE entered([pl.self EXCEPT !.isub = o.isub, !.ipol = o.ipol, !.iprint = o.iprint])
    IN  plotted(loop_plots(self, o, mkdir_ok))

\* the bug of an evaluation that records its merit without counting itself
evaluate_uncounted(self, x) ==
    LET stored(r) == [self |-> [self EXCEPT !.hf = r.hf, !.ht = r.ht,
                                            !.objval = Append(@, r.merit),
                                            !.grad = r.grad_lag, !.model = r.model,
                                            !.has = @ \cup {"model"}],
                      raised |-> "none"]
    IN  stored(cyclic_merit_lag(x, self.cs, self.s0, self.rindex, self.bw, self.ref_freq))

\* one call of cyclic_merit_lag(x, CS) by the minimizer (lines 1243-1302).
\* With make_plots set, every plot_every-th call runs plotCurrentSolution
\* (lines 1295-1297), which reads self.filename (line 717), an attribute no
\* method assigns: raised names the exception, which leaves niter as it was.
evaluate(self, x) ==
    LET plotted(s) ==
            IF ~s.make_plots THEN [self |-> [s EXCEPT !.niter = @ + 1], raised |-> "none"]
            ELSE IF s.plot_every = 0 THEN [self |-> s, raised |-> "ZeroDivisionError"]
            ELSE IF s.niter % s.plot_every = 0 THEN [self |-> s, raised |-> "AttributeError"]
            ELSE [self |-> [s EXCEPT !.niter = @ + 1], raised |-> "none"]
        stored(r) == plotted([self EXCEPT !.hf = r.hf, !.ht = r.ht,
                                          !.objval = Append(@, r.merit),
                                          !.grad = r.grad_lag, !.model = r.model,
                                          !.has = @ \cup {"model"}])
    IN  stored(cyclic_merit_lag(x, self.cs, self.s0, self.rindex, self.bw, self.ref_freq))

\* the bug of counting a run only when the minimizer stopped before maxfun
\* evaluations
loop_end_converged(self, o, locals, x) ==
    LET stored(hf_soln, hf, pp) ==
            [self EXCEPT !.hf_soln = hf_soln,
                         !.optimized_filters = SetRow(@, o.isub, hf),
                         !.hf_prev = hf,
                         !.intrinsic_profiles = SetRow(@, o.isub, pp),
                         !.pp_int = AddArray(@, pp),
                         !.pp_ref = IF self.pp_ref_view THEN AddArray(self.pp_int, pp) ELSE @,
                         !.nopt = IF self.niter >= o.maxfun THEN @ ELSE @ + 1]
        profiled(hf_soln, hf) ==
            stored(hf_soln, hf,
                   harm2phase([optimize_profile(self.cs, hf, self.bw, self.ref_freq)
                                  EXCEPT ![0] = Zero]))
        matched(hf_soln) == profiled(hf_soln, match_two_filters(locals.hf_prev_, hf_soln))
    IN  matched(time2freq(get_ht(x, locals.rindex)))

\* the bug of matching the solution to the stored filter even when loop() was
\* given an hf_prev argument
loop_end_stored_prev(self, o, locals, x) ==
    LET stored(hf_soln, hf, pp) ==
            [self EXCEPT !.hf_soln = hf_soln,
                         !.optimized_filters = SetRow(@, o.isub, hf),
                         !.hf_prev = hf,
                         !.intrinsic_profiles = SetRow(@, o.isub, pp),
                         !.pp_int = AddArray(@, pp),
                         !.pp_ref = IF self.pp_ref_view THEN AddArray(self.pp_int, pp) ELSE @,
                         !.nopt = @ + 1]
        profiled(hf_soln, hf) ==
            stored(hf_soln, hf,
                   harm2phase([optimize_profile(self.cs, hf, self.bw, self.ref_freq)
                                  EXCEPT ![0] = Zero]))
        matched(hf_soln) == profiled(hf_soln, match_two_filters(self.hf_prev, hf_soln))
    IN  matched(time2freq(get_ht(x, locals.rindex)))

\* loop() from the return of the minimizer with the iterate x (lines 451-467);
\* the local cs is the array that self.cs names
loop_end(self, o, locals, x) ==
    LET stored(hf_soln, hf, pp) ==
            [self EXCEPT !.hf_soln = hf_soln,
                         !.optimized_filters = SetRow(@, o.isub, hf),
                         !.hf_prev = hf,
                         !.intrinsic_profiles = SetRow(@, o.isub, pp),
                         !.pp_int = AddArray(@, pp),
                         !.pp_ref = IF self.pp_ref_view THEN AddArray(self.pp_int, pp) ELSE @,
                         !.nopt = @ + 1]
        profiled(hf_soln, hf) ==
            stored(hf_soln, hf,
                   harm2phase([optimize_profile(self.cs, hf, self.bw, self.ref_freq)
                                  EXCEPT ![0] = Zero]))
        matched(hf_soln) == profiled(hf_soln, match_two_filters(locals.hf_prev_, hf_soln))
    IN  matched(time2freq(get_ht(x, locals.rindex)))

(***************************************************************************)
(* The solver at work: segments loaded, the reference profile initialised, *)
(* and loop() run on subintegrations.  Inside loop() the minimizer         *)
(* (scipy.optimize.fmin_l_bfgs_b) evaluates the objective at its starting  *)
(* point and then at points of its choice that satisfy the bounds, at most *)
(* MaxEval times, and returns one of the points it evaluated.              *)
(***************************************************************************)
MaxEval == 1
MaxOpt == 2
MaxTry == 0
NSegments == 1

\* loop() called with its default arguments
Defaults ==
    [isub |-> 0, ipol |-> 0, hf_prev |-> None, make_plots |-> FALSE, plotdir |-> None,
     plot_every |-> 1, iprint |-> 1, maxfun |-> 1000, maxneg |-> None, maxlen |-> None,
     rindex |-> None, ht0 |-> None, use_last_soln |-> TRUE, use_minphase |-> TRUE,
     onp |-> None, adjust_delay |-> TRUE]

\* the calls of loop() drawn: on every subintegration, the defaults and the
\* defaults with one group of arguments given
LoopOptions(self) ==
    {[c EXCEPT !.isub = isub] :
        isub \in 0..(self.nspec - 1),
        c \in {Defaults,
               [Defaults EXCEPT !.maxneg = Some(0)],
               [Defaults EXCEPT !.maxlen = Some(1)],
               [Defaults EXCEPT !.maxneg = Some(1), !.maxlen = Some(2), !.rindex = Some(1)],
               [Defaults EXCEPT !.use_last_soln = FALSE, !.adjust_delay = FALSE],
               [Defaults EXCEPT !.maxfun = 1]}}

\* the calls of loop() drawn with and without plots: the defaults, plots in
\* the default directory, plots in a directory given
PlotOptions ==
    {Defaults,
     [Defaults EXCEPT !.make_plots = TRUE],
     [Defaults EXCEPT !.make_plots = TRUE, !.plotdir = Some("plots")]}

\* the float results that a call of loop() reads: the delay of phase_gradient
\* when the initial filter is a delta function at that delay, the index of
\* argmax when the initial filter is the last solution
FloatResults(self, o) ==
    {r \in [pg : {None} \cup {Some(d) : d \in phase_gradient_delays(self.nchan)},
            am : 0..Max(self.nlag - 1, 0)] :
        /\ (~((self.nopt = 0 \/ ~o.use_last_soln) /\ o.ht0 = None /\ o.rindex = None))
              => r.pg = Some(0)
        /\ (~(self.nopt # 0 /\ o.use_last_soln /\ o.adjust_delay /\ o.rindex = None
               /\ "hf_prev" \in self.has /\ HasFloat(self.hf_prev)))
              => r.am = 0}

\* x as the minimizer holds it inside the bounds
Project(x, bounds) ==
    IF bounds = None THEN x
    ELSE [j \in DOMAIN x |-> IF bounds[1][j] = Fixed THEN Zero ELSE x[j]]

InitSolver ==
    /\ CS = Default
    /\ pc = "idle"
    /\ frame = [method |-> "__init__", raised |-> "none"]
    /\ fista = <<>>
    /\ NoCall

InitProfile ==
    /\ pc = "idle"
    /\ \E maxinitharm \in {None, Some(1)} :
         \E r \in {initProfile(CS, 0, maxinitharm)} :
            /\ CS' = r.self
            /\ frame' = [method |-> "initProfile", maxinitharm |-> maxinitharm,
                         raised |-> r.raised]
    /\ UNCHANGED <<pc, fista, call>>

LoopCall(options) ==
    /\ pc = "idle"
    /\ "data" \in CS.has
    /\ CS.nopt < MaxOpt
    /\ \E o \in options : \E f \in FloatResults(CS, o) :
         \E mkdir_ok \in IF o.make_plots /\ o.plotdir # None THEN BOOLEAN ELSE {TRUE} :
         \E r \in {loop_begin(CS, o, f.pg, f.am, mkdir_ok)} :
            /\ CS' = r.self
            /\ pc' = IF r.raised = "none" THEN "minimize" ELSE "idle"
            /\ frame' = [method |-> "loop", o |-> o, raised |-> r.raised,
                         locals |-> r.locals, evaluated |-> {}]
    /\ UNCHANGED <<fista, call>>

LoopBegin == LoopCall(LoopOptions(CS))

\* the minimizer evaluates the objective, at most maxeval times in a loop()
Evaluate(maxeval) ==
    /\ pc = "minimize"
    /\ CS.niter < maxeval
    /\ CS.niter < frame.o.maxfun
    /\ \E x \in IF CS.niter = 0 THEN {Project(frame.locals.x0, frame.locals.bounds)}
                ELSE {Project([j \in DOMAIN frame.locals.x0 |-> GenX(t, j)], frame.locals.bounds) :
                         t \in 0..MaxTry} :
         \E r \in {evaluate(CS, x)} :
            /\ CS' = r.self
            /\ pc' = IF r.raised = "none" THEN "minimize" ELSE "idle"
            /\ frame' = IF r.raised = "none" THEN [frame EXCEPT !.evaluated = @ \cup {x}]
                         ELSE [method |-> "loop", isub |-> frame.o.isub, raised |-> r.raised]
    /\ UNCHANGED <<fista, call>>

Eval == Evaluate(MaxEval)

LoopEnd ==
    /\ pc = "minimize"
    /\ CS.niter >= 1
    /\ \E x \in frame.evaluated :
         /\ CS' = loop_end(CS, frame.o, frame.locals, x)
         /\ frame' = [method |-> "loop", isub |-> frame.o.isub, raised |-> "none",
                       maxfun |-> frame.o.maxfun]
    /\ pc' = "idle"
    /\ UNCHANGED <<fista, call>>

\* a segment of the observation to solve is loaded
LoadSegment == LoadFrom(1..NSegments)

Next == LoadSegment \/ InitProfile \/ LoopBegin \/ Eval \/ LoopEnd

Spec == InitSolver /\ [][Next]_vars

\* C2: every cyclic spectrum the solver holds is padded: in the measured
\* spectrum that loop() stores in self.cs and in the model spectrum that
\* make_model_cs returns to the objective, every entry at a channel below the
\* minimum or from the maximum on of chan_limits_cs for its harmonic is zero.
C2_SpectraPadded ==
    /\ (pc \in {"idle", "minimize"} /\ "cs" \in CS.has) => Padded(CS.cs, CS.bw, CS.ref_freq)
    /\ (pc \in {"idle", "minimize"} /\ "model" \in CS.has) => Padded(CS.model, CS.bw, CS.ref_freq)

\* a second loop has finished; both spectra have entries in range that are not
\* zero at a harmonic above 0, and channels out of range at that harmonic
C2_Witness ==
    /\ pc = "idle"
    /\ CS.nopt = 2
    /\ "model" \in CS.has
    /\ \E h \in 1..(CS.nharm - 1) :
         LET lim == chan_limits_cs(h, CS.nchan, CS.bw, CS.ref_freq)
         IN  /\ lim[1] > 0
             /\ \E c \in lim[1]..(lim[2] - 1) : CS.cs.v[c][h] # Zero /\ CS.model.v[c][h] # Zero

\* C8: loop() hands bounds = None to the minimizer if and only if maxneg is
\* None: maxlen without maxneg runs unbounded, maxneg = 0 runs bounded.
C8_BoundedIffMaxneg ==
    pc = "minimize" => ((frame.locals.bounds = None) <=> (frame.o.maxneg = None))

\* the minimizer runs bounded on a call with maxneg = 0
C8_Witness ==
    /\ pc = "minimize"
    /\ frame.o.maxneg = Some(0)
    /\ frame.locals.bounds # None
    /\ CS.niter = 1

(***************************************************************************)
(* The FISTA driver script, from the first merit (line 55) through the     *)
(* iterations of its loop (lines 71-106).  The wavefield solver behind it  *)
(* (initWavefield, get_reduced_chisq, fista.take_fista_step) is not part   *)
(* of the sources: a step returns a new iterate, here numbered by the      *)
(* iteration that made it, a Lipschitz estimate L and leaves a merit, any  *)
(* of the values drawn.  A merit is <<n>> or the float NaN, <<>>; L counts *)
(* fortieths, so that the first L_max = 1 / 20.0 is 2; step_factor counts  *)
(* thousandths; alpha is a fraction <<num, den>>.                          *)
(***************************************************************************)
MaxIter == 3
MaxMerit == 3
MaxL == 3
Budget == 1000
Mille == 1000
LUnit == 40

NaN == <<>>
Merits == {NaN} \cup {<<n>> : n \in 0..MaxMerit}
\* a < b and a > b on floats: false when either is NaN
FLess(a, b) == a # NaN /\ b # NaN /\ a[1] < b[1]
FGreater(a, b) == FLess(b, a)

Frac(num, den) == <<num \div GCD(num, den), den \div GCD(num, den)>>

\* np.tanh(s * acceleration) for step_factor s and acceleration 1.2, in
\* thousandths, by the continued fraction y (105 + 10 y^2) / (105 + 45 y^2 + y^4)
tanh_accelerated(s) ==
    LET n == (s * 12) \div 10
        n2 == n * n
        num == 105 * Mille * Mille + 10 * n2
        den == 105 * Mille * Mille + 45 * n2 + (n2 \div Mille) * (n2 \div Mille)
    IN  (n * (num \div Mille)) \div (den \div Mille)

\* the bug of recording every step as the best
best_update_always(best_merit, best_x, merit, x_n) == <<merit, x_n>>

\* lines 92-96: (best_merit, best_x) after a step that left merit at x_n
best_update(best_merit, best_x, merit, x_n) ==
    IF FLess(merit, best_merit) THEN <<merit, x_n>> ELSE <<best_merit, best_x>>

\* the bug of shrinking below min_step_factor
step_factor_update_nofloor(step_factor, merit, prev_merit) ==
    IF FGreater(merit, prev_merit)
    THEN (step_factor * 10) \div 12
    ELSE tanh_accelerated(step_factor)

\* lines 98-103: step_factor after a step
step_factor_update(step_factor, merit, prev_merit) ==
    IF FGreater(merit, prev_merit)
    THEN IF step_factor > Mille \div 2 THEN (step_factor * 10) \div 12 ELSE step_factor
    ELSE tanh_accelerated(step_factor)

\* the script up to the loop (lines 48-69), the first merit one of merits;
\* iter and alpha_in are the arguments iter and alpha of the last call of
\* take_fista_step, of which there is none yet, and step_factor_in is the
\* step_factor that the last iteration started with
FistaScript(merits) ==
    /\ \E merit \in merits :
         fista = [i |-> 0, nopt |-> 0, merit |-> merit, x_n |-> 0, L |-> 0,
                  iter |-> -1, alpha_in |-> None, step_factor_in |-> Mille,
                  alpha |-> <<20, 1>>, best_merit |-> merit, best_x |-> 0,
                  L_max |-> LUnit \div 20, step_factor |-> Mille, prev_merit |-> merit]
    /\ CS = <<>>
    /\ pc = "fista"
    /\ frame = <<>>
    /\ NoCall

InitFista == FistaScript(Merits)

\* the bug of a convergence test: the loop left when the merit stops changing
Iterate_converging(merits, Ls) ==
    /\ pc = "fista"
    /\ fista.i < Budget
    /\ \E merit \in merits, L \in Ls :
         LET x_n == fista.i + 1
             best == best_update(fista.best_merit, fista.best_x, merit, x_n)
             step_factor == step_factor_update(fista.step_factor, merit, fista.prev_merit)
         IN  /\ fista' = [i |-> fista.i + 1, nopt |-> fista.nopt + 1,
                          iter |-> fista.i, alpha_in |-> Some(fista.alpha),
                          step_factor_in |-> fista.step_factor,
                          merit |-> merit, x_n |-> x_n, L |-> L,
                          L_max |-> IF L > fista.L_max THEN L ELSE fista.L_max,
                          best_merit |-> best[1], best_x |-> best[2],
                          step_factor |-> step_factor,
                          alpha |-> Frac(step_factor * LUnit, Mille * L),
                          prev_merit |-> merit]
             /\ pc' = IF fista.i + 1 = Budget \/ merit = fista.prev_merit
                      THEN "done" ELSE "fista"
    /\ UNCHANGED <<CS, frame, call>>

\* one iteration of the loop (lines 71-106), the step leaving a merit of
\* merits and returning an L of Ls; after iteration Budget - 1 the loop and
\* with it the script ends
Iterate(merits, Ls) ==
    /\ pc = "fista"
    /\ fista.i < Budget
    /\ \E merit \in merits, L \in Ls :
         LET x_n == fista.i + 1
             best == best_update(fista.best_merit, fista.best_x, merit, x_n)
             step_factor == step_factor_update(fista.step_factor, merit, fista.prev_merit)
         IN  /\ fista' = [i |-> fista.i + 1, nopt |-> fista.nopt + 1,
                          iter |-> fista.i, alpha_in |-> Some(fista.alpha),
                          step_factor_in |-> fista.step_factor,
                          merit |-> merit, x_n |-> x_n, L |-> L,
                          L_max |-> IF L > fista.L_max THEN L ELSE fista.L_max,
                          best_merit |-> best[1], best_x |-> best[2],
                          step_factor |-> step_factor,
                          alpha |-> Frac(step_factor * LUnit, Mille * L),
                          prev_merit |-> merit]
             /\ pc' = IF fista.i + 1 = Budget THEN "done" ELSE "fista"
    /\ UNCHANGED <<CS, frame, call>>

\* the first MaxIter iterations, with every merit and L drawn
FistaStep ==
    /\ fista.i < MaxIter
    /\ Iterate(Merits, 1..MaxL)

NextFista == FistaStep

SpecFista == InitFista /\ [][NextFista]_vars

\* C10: from one iteration to the next best_merit stays or decreases; it is
\* replaced only by the strictly smaller merit of the step just taken, and
\* best_x becomes that step's iterate in the same iteration and changes in no
\* other.
C10_BestMeritNonIncreasing ==
    [][\/ /\ fista'.best_merit = fista.best_merit
          /\ fista'.best_x = fista.best_x
       \/ /\ FLess(fista'.best_merit, fista.best_merit)
          /\ fista'.best_merit = fista'.merit
          /\ fista'.best_x = fista'.x_n]_vars

\* a run in which a step improved on the first merit and the last step, with
\* a larger merit, did not replace it
C10_Witness ==
    /\ pc = "fista"
    /\ fista.i >= 2
    /\ fista.best_x \notin {0, fista.x_n}
    /\ FGreater(fista.merit, fista.best_merit)

(***************************************************************************)
(* The whole run of the script: all Budget iterations, each with a merit   *)
(* that rises, falls or stays, and the loop always entered again (fair).   *)
(***************************************************************************)
RunMerits == {<<0>>, <<1>>}

InitBudget == FistaScript({<<0>>})

FistaRun == Iterate(RunMerits, {LUnit \div 20})

NextBudget == FistaRun

SpecBudget == InitBudget /\ [][NextBudget]_vars /\ WF_vars(NextBudget)

\* an iteration of the loop has been done
Iterated == fista'.i = fista.i + 1

\* C11: the alpha passed to every step after the first is step_factor / L_max
\* with the step_factor and the running maximum L_max of the L returned so
\* far (and of 1 / 20.0) as the iteration before left them.
C11_AlphaIsStepFactorOverLmax ==
    [][(Iterated /\ fista'.iter >= 1)
       => fista'.alpha_in = Some(Frac(fista.step_factor * LUnit, Mille * fista.L_max))]_vars

\* C12 as stated: every iteration whose merit is greater than the merit of the
\* iteration before divides step_factor by 1.2, whatever step_factor is.
C12_ShrinkAlways ==
    [][(Iterated /\ FGreater(fista'.merit, fista.prev_merit))
       => fista'.step_factor = (fista.step_factor * 10) \div 12]_vars

\* C12 amended: an iteration whose merit is greater than the merit of the
\* iteration before divides step_factor by 1.2 when step_factor is above
\* min_step_factor = 0.5, and leaves it unchanged otherwise.
C12_ShrinkAboveFloor ==
    [][(Iterated /\ FGreater(fista'.merit, fista.prev_merit))
       => fista'.step_factor = IF fista.step_factor > Mille \div 2
                               THEN (fista.step_factor * 10) \div 12
                               ELSE fista.step_factor]_vars

\* an iteration that started with a step_factor of at most 0.5 left it as it
\* was, which the tanh of a good step does not do below 0.65
C12_Witness ==
    /\ fista.i >= 1
    /\ fista.step_factor_in <= Mille \div 2
    /\ fista.step_factor = fista.step_factor_in
    /\ fista.merit = <<1>>

\* C13: every iteration whose merit is not greater than the merit of the
\* iteration before leaves a step_factor that is not smaller than the one
\* it started with and is at most 1.
C13_GrowsTowardOne ==
    [][(Iterated /\ ~FGreater(fista'.merit, fista.prev_merit))
       => (fista'.step_factor >= fista.step_factor /\ fista'.step_factor <= Mille)]_vars

\* C14: the loop runs its Budget iterations and ends: every step is one
\* iteration that calls take_fista_step with iter = 0, 1, ... in order and
\* counts one more in nopt; whatever the merits, the next iteration can run
\* as long as fewer than Budget have run, and the script has ended exactly
\* when Budget have run, after which no iteration runs.  Every iteration
\* raises i, which never passes Budget, so the run cannot go on for ever.
C14_FixedBudget ==
    /\ [][Iterated /\ fista'.iter = fista.i /\ fista'.nopt = fista.nopt + 1]_vars
    /\ [](fista.nopt = fista.i /\ fista.i <= Budget)
    /\ []((pc = "done") <=> (fista.i = Budget))
    /\ [](fista.i < Budget => ENABLED FistaRun)
    /\ [](pc = "done" => ~ENABLED FistaRun)

\* the script has ended after iteration 999, in a run whose merits rose (the
\* step_factor went below its start) and fell
C14_Witness ==
    /\ pc = "done"
    /\ fista.iter = Budget - 1
    /\ fista.nopt = Budget
    /\ fista.step_factor < Mille \div 2
    /\ fista.merit = <<0>>

(***************************************************************************)
(* The initial filter of a first loop() (lines 379-402) on a solver whose  *)
(* one subintegration has the same amplitude in every phase bin of a       *)
(* channel: the amplitudes of the channels, the delay (rindex), onp and    *)
(* use_minphase are drawn.                                                 *)
(***************************************************************************)
GuessChans == {1, 2, 4}
GuessBins == 2

InitGuess ==
    /\ \E nchan \in GuessChans, use_minphase \in BOOLEAN,
          onp \in {None, Some(<<0, 1>>), Some(<<0, 2>>), Some(<<1, 1>>)} :
         \E amp \in [0..(nchan - 1) -> 0..1], rindex \in 0..(nchan - 1) :
            args = [fn |-> "loop_guess",
                    self |-> [nopt |-> 0, nlag |-> nchan,
                              data |-> Data4(1, 1, nchan, GuessBins,
                                  <<<<Arr2(nchan, GuessBins,
                                           [c \in 0..(nchan - 1), b \in 0..(GuessBins - 1) |-> Re(amp[c])])>>>>)],
                    o |-> [Defaults EXCEPT !.use_minphase = use_minphase, !.onp = onp,
                                           !.rindex = Some(rindex)]]
    /\ result = <<>>
    /\ stage = "call"
    /\ NoObjects

CallGuess ==
    /\ stage = "call"
    /\ args.fn = "loop_guess"
    /\ result' = loop_guess(args.self, args.o, <<>>, <<>>, None)
    /\ stage' = "done"
    /\ UNCHANGED <<args, objs>>

SpecGuess == InitGuess /\ [][CallGuess]_vars

\* C15: a first loop() asked for the minimum-phase guess (use_minphase, onp
\* given) whose off-pulse spectrum is zero in every channel, or not a number,
\* does not raise and starts from the delta function of height nlag at the
\* delay.
C15_FallsBackToDelta ==
    (/\ stage = "done"
     /\ args.fn = "loop_guess"
     /\ args.o.use_minphase
     /\ args.o.onp # None
     /\ \A c \in 0..(args.self.nlag - 1) :
           offpulse_spectrum(args.self.data.v[1][1], args.o.onp[1])[c] \in {Zero, Float})
    => (/\ result.raised = "none"
        /\ result.hf = time2freq([l \in 0..(args.self.nlag - 1) |->
                            IF l = args.o.rindex[1] THEN Re(args.self.nlag) ELSE Zero]))

\* C16: when the minimizer has used its maxfun evaluations, loop() still ends
\* without an exception: the filter of an iterate the minimizer evaluated,
\* matched to the previous filter, is stored in optimized_filters[isub] and
\* in hf_prev, the intrinsic profile of that filter in
\* intrinsic_profiles[isub], nopt is one more, and the merits of objval are
\* kept.
C16_MaxfunExhaustedStores ==
    [][(pc = "minimize" /\ CS.niter >= frame.o.maxfun)
       => (/\ pc' = "idle"
           /\ frame'.raised = "none"
           /\ CS'.nopt = CS.nopt + 1
           /\ CS'.objval = CS.objval
           /\ \E x \in frame.evaluated :
                \E hf \in {match_two_filters(frame.locals.hf_prev_,
                                              time2freq(get_ht(x, frame.locals.rindex)))} :
                   /\ CS'.optimized_filters[frame.o.isub + 1] = hf
                   /\ CS'.hf_prev = hf
                   /\ CS'.intrinsic_profiles[frame.o.isub + 1] =
                          harm2phase([optimize_profile(CS.cs, hf, CS.bw, CS.ref_freq)
                                         EXCEPT ![0] = Zero]))]_vars

\* a second loop() has ended after its one evaluation with maxfun = 1, and
\* has stored a filter that is not zero
C16_Witness ==
    /\ pc = "idle"
    /\ frame.method = "loop"
    /\ frame.raised = "none"
    /\ "maxfun" \in DOMAIN frame
    /\ frame.maxfun = 1
    /\ CS.niter = 1
    /\ CS.nopt = 2
    /\ \E c \in DOMAIN CS.hf_prev : CS.hf_prev[c] # Zero

\* C17: no step of loop() changes the contents of pp_ref, and no evaluation
\* of cyclic_merit_lag changes cs or s0.
C17_ReferenceReadOnly ==
    [][/\ (pc = "minimize" \/ (pc = "idle" /\ frame'.method = "loop"))
           => CS'.pp_ref = CS.pp_ref
       /\ (pc = "minimize" /\ pc' = "minimize")
           => (CS'.cs = CS.cs /\ CS'.s0 = CS.s0)]_vars

(***************************************************************************)
(* The solver at work with plots asked for: loop() is called with          *)
(* make_plots set, in the default plot directory or in one that is given   *)
(* (which os.mkdir makes or fails to make), and without plots.             *)
(***************************************************************************)
LoopPlots == LoopCall(PlotOptions)

NextPlots == LoadSegment \/ InitProfile \/ LoopPlots \/ Eval \/ LoopEnd

SpecPlots == InitSolver /\ [][NextPlots]_vars

\* C18: a loop() called with make_plots set gets to the minimizer with what
\* the same call without plots gets there with (or raises as that call
\* does), none of its evaluations raises, and each leaves the hf, ht, merits,
\* gradient, model and niter that the evaluation without plots leaves.
C18_PlotsOnlyObserve ==
    [][/\ (pc = "idle" /\ frame'.method = "loop" /\ frame'.o.make_plots)
           => \E f \in FloatResults(CS, frame'.o) :
                 \E q \in {loop_begin(CS, [frame'.o EXCEPT !.make_plots = FALSE],
                                       f.pg, f.am, TRUE)} :
                    /\ frame'.raised = q.raised
                    /\ frame'.locals = q.locals
       /\ (pc = "minimize" /\ frame.o.make_plots)
           => /\ frame'.raised = "none"
              /\ pc' = "minimize"
                    => \E x \in frame'.evaluated :
                          [CS' EXCEPT !.make_plots = FALSE]
                              = evaluate([CS EXCEPT !.make_plots = FALSE], x).self]_vars

\* C19: the first load() of a solver made with tscrunch = t, on a file whose
\* subintegration count is a multiple of t, leaves that count divided by t
\* as nspec, and as subintegration i the average of the i-th group of t
\* consecutive subintegrations of the data prepared without tscrunch.
C19_TscrunchAverages ==
    [][(/\ frame'.method = "load"
        /\ frame'.raised = "none"
        /\ CS' # CS
        /\ CS.nspec = 0
        /\ CS.tscrunch # None
        /\ Archive(frame'.filename).nsub % CS.tscrunch[1] = 0)
       => \E t \in {CS.tscrunch[1]} :
             \E raw \in {load_data([CS EXCEPT !.tscrunch = None], Archive(frame'.filename)).data} :
                /\ CS'.nspec = raw.shape[1] \div t
                /\ CS'.data.shape[1] = raw.shape[1] \div t
                /\ \A i \in 1..(raw.shape[1] \div t), p \in 1..raw.shape[2],
                      c \in 0..(raw.shape[3] - 1), b \in 0..(raw.shape[4] - 1) :
                        CS'.data.v[i][p].v[c][b] =
                            CDivInt(CSum([k \in 1..t |-> raw.v[(i - 1) * t + k][p].v[c][b]], 1..t), t)]_vars

\* C20: initProfile(maxinitharm = m) with 1 <= m < nharm leaves the profile
\* whose harmonics above m are zero and whose harmonics 1..m are the
\* estimated ones: the profile that cutting from index m + 1 on gives.
C20_KeepsHarmonicM ==
    [][(/\ frame'.method = "initProfile"
        /\ frame'.raised = "none"
        /\ frame'.maxinitharm # None
        /\ 1 <= frame'.maxinitharm[1]
        /\ frame'.maxinitharm[1] < CS.nharm)
       => \E kept \in {initProfile(CS, 0, Some(frame'.maxinitharm[1] + 1))} :
             /\ CS'.pp_ref = kept.self.pp_ref
             /\ CS'.pp_int = kept.self.pp_int]_vars

(***************************************************************************)
(* The gradient of the objective against the derivative of its merit.  The *)
(* merit is a polynomial of degree 4 in each real parameter (the model     *)
(* spectrum is a product of two shears of the filter, the merit a sum of   *)
(* squared moduli), so that the derivative at x along parameter j is       *)
(* exactly (8 (m(1) - m(-1)) - (m(2) - m(-2))) / 12 with m(t) the merit at *)
(* x + t e_j: the central difference with its cubic error term removed.    *)
(***************************************************************************)
\* the merit cyclic_merit_lag returns at x with t added to parameter j
merit_at(x, j, t, cs, s0, rindex, bw, ref_freq) ==
    MeritFrom(1, make_model_cs(time2freq(get_ht([x EXCEPT ![j] = CAdd(@, Re(t))], rindex)),
                               s0, bw, ref_freq)[1], cs)

merit_derivative(x, j, cs, s0, rindex, bw, ref_freq) ==
    LET m(t) == merit_at(x, j, t, cs, s0, rindex, bw, ref_freq)
    IN  CDivInt(CSub(CScale(8, CSub(m(1), m(-1))), CSub(m(2), m(-2))), 12)

EvalGradient ==
    /\ stage = "call"
    /\ args.fn = "cyclic_merit_lag"
    /\ result' = [a |-> cyclic_merit_lag(args.x, args.cs, args.s0, args.rindex,
                                         args.bw, args.ref_freq),
                  derivative |-> [j \in DOMAIN args.x |->
                                     merit_derivative(args.x, j, args.cs, args.s0, args.rindex,
                                                      args.bw, args.ref_freq)]]
    /\ stage' = "graded"
    /\ UNCHANGED <<args, objs>>

SpecGradient == InitMerit /\ [][EvalGradient]_vars

\* C21: the gradient cyclic_merit_lag returns is the derivative of the merit
\* it returns with respect to each real parameter.
C21_GradientIsDerivative ==
    (stage = "graded" /\ args.fn = "cyclic_merit_lag") =>
        \A j \in DOMAIN args.x : result.a.grad[j] = result.derivative[j]

\* an evaluation with four lags, an interior reference lag and three
\* harmonics, whose gradient is exact and not zero in at least four of its
\* seven entries, at a point where the merit is not zero
C21_Witness ==
    /\ stage = "graded"
    /\ args.fn = "cyclic_merit_lag"
    /\ Len1(args.x) = 7
    /\ args.cs.n1 = 3
    /\ args.rindex \in {1, 2}
    /\ result.a.merit # Zero
    /\ \A j \in DOMAIN args.x : ~IsFloat(result.a.grad[j])
    /\ Cardinality({j \in DOMAIN args.x : result.a.grad[j] # Zero}) >= 4

(***************************************************************************)
(* The solver at work on default loop() calls in which the minimizer       *)
(* evaluates the objective up to HistoryEvals times.                       *)
(***************************************************************************)
HistoryEvals == 3

NextHistory ==
    LoadSegment \/ InitProfile \/ LoopCall({Defaults}) \/ Evaluate(HistoryEvals) \/ LoopEnd

SpecHistory == InitSolver /\ [][NextHistory]_vars

\* C22: loop() starts the minimizer with niter = 0 and objval empty; every
\* evaluation adds one to niter and appends to objval the merit of the point
\* evaluated, leaving the merits before it in place; while the minimizer runs
\* and when loop() has ended objval has niter merits.
C22_HistoryBookkeeping ==
    /\ [][/\ (pc = "idle" /\ pc' = "minimize")
              => (CS'.niter = 0 /\ CS'.objval = <<>>)
          /\ (pc = "minimize" /\ pc' = "minimize")
              => (/\ CS'.niter = CS.niter + 1
                   /\ \E x \in frame'.evaluated :
                         CS'.objval = Append(CS.objval,
                             cyclic_merit_lag(x, CS.cs, CS.s0, CS.rindex, CS.bw, CS.ref_freq).merit))]_vars
    /\ []((pc = "minimize" \/ (pc = "idle" /\ frame.method = "loop" /\ frame.raised = "none"))
            => Len(CS.objval) = CS.niter)

\* a second loop() has ended after HistoryEvals evaluations: objval holds the
\* merits of this loop only, not those of the loop before it
C22_Witness ==
    /\ pc = "idle" /\ frame.method = "loop" /\ frame.raised = "none"
    /\ CS.nopt = 2
    /\ CS.niter = HistoryEvals
    /\ Len(CS.objval) = HistoryEvals

(***************************************************************************)
(* The initial filter of any loop() (lines 363-402): the count of          *)
(* optimizations done, use_last_soln, ht0, rindex, the delay estimated by  *)
(* phase_gradient, use_minphase, onp and the data are drawn.               *)
(***************************************************************************)
PolicyChans == {2, 4}

\* the filter of the optimization before, and an ht0 argument
PolicyPrev(nchan) == [c \in 0..(nchan - 1) |-> <<c + 2, 1, 1>>]
PolicyHt0(nchan) == [l \in 0..(nchan - 1) |-> Re(l + 1)]

InitPolicy ==
    /\ \E nchan \in PolicyChans, nopt \in 0..MaxOpt, use_last_soln \in BOOLEAN,
          use_minphase \in BOOLEAN, onp \in {None, Some(<<0, 1>>)}, flat \in BOOLEAN :
         \E rindex \in {None} \cup {Some(d) : d \in 0..(nchan - 1)},
            pg \in {Some(d) : d \in phase_gradient_delays(nchan)},
            ht0 \in {None, Some(PolicyHt0(nchan))} :
            args = [fn |-> "loop_guess",
                    self |-> [nopt |-> nopt, nlag |-> nchan,
                              data |-> Data4(1, 1, nchan, GuessBins,
                                  <<<<Arr2(nchan, GuessBins,
                                           [c \in 0..(nchan - 1), b \in 0..(GuessBins - 1) |->
                                               IF flat THEN Re(1) ELSE Re(c % 2)])>>>>)],
                    o |-> [Defaults EXCEPT !.use_last_soln = use_last_soln,
                                           !.use_minphase = use_minphase, !.onp = onp,
                                           !.rindex = rindex, !.ht0 = ht0],
                    hf_prev_ |-> PolicyPrev(nchan),
                    pg |-> pg]
    /\ result = <<>>
    /\ stage = "call"
    /\ NoObjects

CallPolicy ==
    /\ stage = "call"
    /\ args.fn = "loop_guess"
    /\ result' = loop_guess(args.self, args.o, <<>>, args.hf_prev_, args.pg)
    /\ stage' = "guessed"
    /\ UNCHANGED <<args, objs>>

SpecPolicy == InitPolicy /\ [][CallPolicy]_vars

\* C23: the initial filter is the previous filter exactly when an
\* optimization has been done (nopt > 0) and use_last_soln is set; otherwise
\* it is the transform of ht0 when ht0 is given, else of the delta function
\* of height nlag at the delay (rindex when given, else the phase-gradient
\* estimate), which the minimum-phase reconstruction replaces only when
\* use_minphase is set and onp is given.  A first optimization never starts
\* from the previous filter.
C23_InitialGuessPolicy ==
    (stage = "guessed" /\ args.fn = "loop_guess" /\ result.raised = "none")
    => LET nlag == args.self.nlag
           o == args.o
           carried == args.self.nopt > 0 /\ o.use_last_soln
           delay == IF o.rindex # None THEN o.rindex[1] ELSE args.pg[1]
           delta == [l \in 0..(nlag - 1) |-> IF l = delay THEN Re(nlag) ELSE Zero]
       IN  /\ carried <=> (result.hf = args.hf_prev_)
           /\ (~carried /\ o.ht0 # None) => result.hf = time2freq(o.ht0[1])
           /\ (~carried /\ o.ht0 = None /\ ~(o.use_minphase /\ o.onp # None))
                 => result.hf = time2freq(delta)
           /\ (~carried /\ o.ht0 = None /\ o.use_minphase /\ o.onp # None)
                 => result.hf = time2freq(minphase_guess(args.self, o, delay, delta))
           /\ (args.self.nopt = 0) => result.hf # args.hf_prev_

\* a later loop() told not to use the last solution, without ht0 and rindex,
\* started from the delta function at a phase-gradient delay other than 0
C23_Witness ==
    /\ stage = "guessed" /\ args.fn = "loop_guess" /\ result.raised = "none"
    /\ args.self.nopt = 2
    /\ ~args.o.use_last_soln
    /\ args.o.ht0 = None /\ args.o.rindex = None /\ args.o.onp = None
    /\ args.pg = Some(1)
    /\ args.self.nlag = 4
    /\ result.hf = time2freq([l \in 0..3 |-> IF l = 1 THEN Re(4) ELSE Zero])
    /\ result.hf # args.hf_prev_

(***************************************************************************)
(* The solver at work on loop() calls with and without an hf_prev          *)
(* argument.                                                               *)
(***************************************************************************)
\* an hf_prev argument: a quarter turn of the filter initProfile stores
MatchGiven(self) == [c \in 0..(self.nchan - 1) |-> <<0, 1, 1>>]

MatchOptions(self) == {Defaults, [Defaults EXCEPT !.hf_prev = Some(MatchGiven(self))]}

NextMatch ==
    LoadSegment \/ InitProfile \/ LoopCall(MatchOptions(CS)) \/ Eval \/ LoopEnd

SpecMatch == InitSolver /\ [][NextMatch]_vars

\* C24: when loop(isub) returns, hf_soln is the filter of the iterate the
\* minimizer returned, and optimized_filters[isub] and hf_prev are both that
\* filter matched (match_two_filters) to the previous filter: the hf_prev
\* argument when one was given, else the hf_prev the solver held when
\* loop() was called.
C24_StoresMatchedFilter ==
    [][(pc = "minimize" /\ pc' = "idle" /\ frame'.raised = "none")
       => \E x \in frame.evaluated :
            \E prev \in {IF frame.o.hf_prev # None THEN frame.o.hf_prev[1] ELSE CS.hf_prev},
               raw \in {time2freq(get_ht(x, frame.locals.rindex))} :
               /\ CS'.hf_soln = raw
               /\ CS'.hf_prev = match_two_filters(prev, raw)
               /\ CS'.optimized_filters[frame.o.isub + 1] = match_two_filters(prev, raw)]_vars

\* a second loop() has returned with a raw solution of 1 in every channel
\* and the matched filter, a quarter turn of it, in hf_prev and in
\* optimized_filters
C24_Witness ==
    /\ pc = "idle" /\ frame.method = "loop" /\ frame.raised = "none"
    /\ CS.nopt = 2
    /\ CS.hf_soln = [c \in 0..(CS.nchan - 1) |-> Re(1)]
    /\ CS.hf_prev = [c \in 0..(CS.nchan - 1) |-> <<0, 1, 1>>]
    /\ CS.optimized_filters[frame.isub + 1] = CS.hf_prev

\* C25: whenever loop() runs bounded (maxneg given, maxlen absent or at least
\* 1), the bounds leave the parameter of the reference lag, parameter
\* 2 * rindex, at (None, None).
C25_ReferenceLagFree ==
    (/\ stage = "done"
     /\ args.fn = "loop_bounds"
     /\ args.maxneg # None
     /\ (args.maxlen = None \/ args.maxlen[1] >= 1))
    => (result # None /\ result[1][2 * args.rindex] = Free)

\* the step is part of a call of loop() on subintegration isub
LoopOn(isub) ==
    \/ pc = "minimize" /\ frame.o.isub = isub
    \/ /\ frame'.method = "loop"
       /\ isub = IF "o" \in DOMAIN frame' THEN frame'.o.isub ELSE frame'.isub

\* C26: the rows of dynamic_spectrum, optimized_filters and
\* intrinsic_profiles of a subintegration keep their values under every
\* step (a load() of a further segment, initProfile(), loop() on another
\* subintegration) that is not part of loop() on that subintegration.
C26_RowsKept ==
    [][\A i \in 1..Len(CS.optimized_filters) :
          ~LoopOn(i - 1)
          => (/\ i <= Len(CS'.optimized_filters)
              /\ CS'.dynamic_spectrum[i] = CS.dynamic_spectrum[i]
              /\ CS'.optimized_filters[i] = CS.optimized_filters[i]
              /\ CS'.intrinsic_profiles[i] = CS.intrinsic_profiles[i])]_vars

(***************************************************************************)
(* The solver at work on the one subintegration of file PulseFile, whose   *)
(* cyclic spectrum and intrinsic profile are exact: loop() is called with  *)
(* its defaults, as solve() calls it, pass after pass.                     *)
(***************************************************************************)
LoadPulse == LoadFrom({PulseFile})

NextPass == LoadPulse \/ InitProfile \/ LoopCall({Defaults}) \/ Eval \/ LoopEnd

SpecPass == InitSolver /\ [][NextPass]_vars

\* the rows of a per-subintegration array summed
SumRows(rows, n) ==
    [b \in 0..(n - 1) |-> CSum([i \in 1..Len(rows) |-> rows[i][b]], 1..Len(rows))]

\* C27: after every pass of default loop() calls over the subintegrations,
\* the first and the later ones, with no initProfile() in between, pp_int
\* is the sum of the rows of intrinsic_profiles.  (With one subintegration
\* a pass is one loop(0).)
C27_IntegratedIsSumOfRows ==
    (/\ pc = "idle" /\ frame.method = "loop" /\ frame.raised = "none"
     /\ CS.nspec = 1
     /\ ~CS.pp_ref_view)
    => CS.pp_int = SumRows(CS.intrinsic_profiles, CS.nphase)

\* C28: the first load() of a solver made with zap_edges = z, 0 <= z < 0.5,
\* removes k = int(z * nchan) channels from each edge of the band and keeps
\* the nchan - 2k channels between, k = 0 included.
C28_ZapKeepsMiddle ==
    (/\ frame.method = "load" /\ frame.raised = "none"
     /\ Len(CS.filenames) = 1
     /\ CS.zap_edges # None)
    => \E raw \in {get_data(Archive(frame.filename))} :
         \E k \in {(CS.zap_edges[1][1] * raw.shape[3]) \div CS.zap_edges[1][2]} :
            /\ CS.nchan = raw.shape[3] - 2 * k
            /\ CS.data.shape[3] = raw.shape[3] - 2 * k
            /\ \A i \in 1..raw.shape[1], p \in 1..raw.shape[2] :
                  \A c \in 0..(raw.shape[3] - 2 * k - 1) :
                     CS.data.v[i][p].v[c] = raw.v[i][p].v[c + k]

====
